---- MODULE Spec2Model ----
(***************************************************************************)
(* A model of kubectl-getinfo's resolution-and-extraction layer:           *)
(*   - getGVR (resources.go): resolving a user string against the          *)
(*     discovery catalog;                                                  *)
(*   - getResources (resources.go): retrieving the objects by name or by   *)
(*     listing;                                                            *)
(*   - getPodSpecPath, extractSchedulingInfo, extractSchedulingSubcommand  *)
(*     (extractors.go): reading scheduling fields from a document.         *)
(*   - main, preprocessArgs and the flag set (main.go): from os.Args to    *)
(*     the usage texts, the flags and the resource names;                  *)
(*   - main's output switch, printTable and the field tags of types.go:    *)
(*     from the retrieved items to what is written.                        *)
(*                                                                         *)
(* Strings that the code lower-cases or searches (resource names, kinds,   *)
(* short names, group-version strings) are sequences of one-character      *)
(* strings, so that strings.ToLower, strings.Contains and the parsing of   *)
(* "group/version" are computed, not assumed.                              *)
(***************************************************************************)
EXTENDS Integers, Sequences, FiniteSets, TLC

VARIABLES
    \* ---- getGVR: what the call meets, and what it returned
    clientErr,          \* NewDiscoveryClientForConfig returned an error
    discErr,            \* ServerGroupsAndResources returned err != nil
    listsNil,           \* apiResourceLists == nil
    apiResourceLists,   \* the []*APIResourceList that discovery returned
    resourceType,       \* the argument of the last getGVR call
    resolved,           \* what the last getGVR call returned
    calls,              \* "none" before any call, then the last operation's name
    \* ---- extractors.go: the document, and what the last call returned
    item,               \* item.Object
    subCommand,         \* the subCommand of the last extractSchedulingSubcommand
    outputItem,         \* the OutputItem main fills for the item
    podSpecPath,        \* what the last getPodSpecPath call returned
    \* ---- getResources: its arguments, the cluster, and what it did
    namespaced,         \* the argument namespaced
    namespace,          \* the argument namespace
    resourceNames,      \* the argument resourceNames
    labelSelector,      \* the argument labelSelector
    objects,            \* what the cluster answers to a Get of each name
    listErr,            \* the cluster answers a List with an error
    apiCalls,           \* the requests issued by the last getResources call
    retrieved,          \* what the last getResources call returned
    \* ---- main, from os.Args to the call of getKubeconfig
    osArgs,             \* os.Args
    kubeconfigErr,      \* getKubeconfig returns an error
    command,            \* cmdType, subCommand, resourceType and argsOffset
    flagSet,            \* the flag variables and fs.Args() after fs.Parse
    mainCalls,          \* the calls main made to the layers below, in order
    \* ---- main, from the retrieved items to the output
    cmdType,            \* the command the output is built for
    outputFormat,       \* the value of -o
    colorOutput,        \* the value of -c
    items,              \* what getResources returned to main
    output,             \* the Output that main built
    \* ---- what the process left behind
    stdout,             \* what was written to os.Stdout, in order
    stderr,             \* what was written to os.Stderr, in order
    exitCode            \* the status of os.Exit, Running before it

resolveVars == <<clientErr, discErr, listsNil, apiResourceLists, resourceType,
                 resolved>>

extractVars == <<item, subCommand, outputItem, podSpecPath>>

retrieveVars == <<namespaced, namespace, resourceNames, labelSelector, objects,
                  listErr, apiCalls, retrieved>>

mainVars == <<osArgs, kubeconfigErr, command, flagSet, mainCalls, cmdType,
              outputFormat, colorOutput, items, output, stdout, stderr,
              exitCode>>

vars == <<clientErr, discErr, listsNil, apiResourceLists, resourceType,
          resolved, calls, item, subCommand, outputItem, podSpecPath,
          namespaced, namespace, resourceNames, labelSelector, objects,
          listErr, apiCalls, retrieved, osArgs, kubeconfigErr, command,
          flagSet, mainCalls, cmdType, outputFormat, colorOutput, items,
          output, stdout, stderr, exitCode>>

-----------------------------------------------------------------------------
(* Bounds *)

\* the number of resource lists (group-versions) in a discovery result
MaxLists == 2

\* the number of entries of a pod spec's "containers"
MaxContainers == 3

\* the number of resource names given to getResources
MaxNames == 3

\* the number of arguments typed after the resource type
MaxArgs == 3

\* the number of items that main builds the output from
MaxItems == 2

-----------------------------------------------------------------------------
(* Strings as character sequences *)

s_empty    == <<>>
s_pods     == <<"p","o","d","s">>
s_Pods     == <<"P","o","d","s">>
s_PODS     == <<"P","O","D","S">>
s_Pod      == <<"P","o","d">>
s_po       == <<"p","o">>
s_podslog  == <<"p","o","d","s","/","l","o","g">>
s_log      == <<"l","o","g">>
s_Log      == <<"L","o","g">>
s_logs     == <<"l","o","g","s">>
s_pl       == <<"p","l">>
s_ps       == <<"p","s">>
s_podsets  == <<"p","o","d","s","e","t","s">>
s_PodSet   == <<"P","o","d","S","e","t">>
s_nodes    == <<"n","o","d","e","s">>
s_v1       == <<"v","1">>
s_apps_v1  == <<"a","p","p","s","/","v","1">>
s_a_b_c    == <<"a","/","b","/","c">>

\* unicode.ToLower on the letters A..Z; every other character is unchanged
ToLowerChar(c) ==
    CASE c = "A" -> "a" [] c = "B" -> "b" [] c = "C" -> "c" [] c = "D" -> "d"
      [] c = "E" -> "e" [] c = "F" -> "f" [] c = "G" -> "g" [] c = "H" -> "h"
      [] c = "I" -> "i" [] c = "J" -> "j" [] c = "K" -> "k" [] c = "L" -> "l"
      [] c = "M" -> "m" [] c = "N" -> "n" [] c = "O" -> "o" [] c = "P" -> "p"
      [] c = "Q" -> "q" [] c = "R" -> "r" [] c = "S" -> "s" [] c = "T" -> "t"
      [] c = "U" -> "u" [] c = "V" -> "v" [] c = "W" -> "w" [] c = "X" -> "x"
      [] c = "Y" -> "y" [] c = "Z" -> "z"
      [] OTHER -> c

\* strings.ToLower
ToLower(s) == [i \in 1..Len(s) |-> ToLowerChar(s[i])]

\* strings.Contains(s, "/")
ContainsSlash(s) == \E i \in 1..Len(s) : s[i] = "/"

\* strings.Count(s, "/")
CountSlash(s) == Cardinality({i \in 1..Len(s) : s[i] = "/"})

\* strings.Index(s, "/") as a 1-based position; only used when a "/" exists
IndexSlash(s) == CHOOSE i \in 1..Len(s) :
                    /\ s[i] = "/"
                    /\ \A j \in 1..(i-1) : s[j] # "/"

-----------------------------------------------------------------------------
(* schema.ParseGroupVersion, as getGVR uses it *)

\* altered: whatever follows the first "/" is taken as the version
ParseGroupVersion_Lenient(gv) ==
    IF ContainsSlash(gv)
    THEN [err |-> FALSE,
          Group |-> SubSeq(gv, 1, IndexSlash(gv) - 1),
          Version |-> SubSeq(gv, IndexSlash(gv) + 1, Len(gv))]
    ELSE [err |-> FALSE, Group |-> s_empty, Version |-> gv]

ParseGroupVersion(gv) ==
    IF Len(gv) = 0 \/ gv = <<"/">>
    THEN [err |-> FALSE, Group |-> s_empty, Version |-> s_empty]
    ELSE CASE CountSlash(gv) = 0 ->
                [err |-> FALSE, Group |-> s_empty, Version |-> gv]
           [] CountSlash(gv) = 1 ->
                [err |-> FALSE,
                 Group |-> SubSeq(gv, 1, IndexSlash(gv) - 1),
                 Version |-> SubSeq(gv, IndexSlash(gv) + 1, Len(gv))]
           [] OTHER ->
                [err |-> TRUE, Group |-> s_empty, Version |-> s_empty]

-----------------------------------------------------------------------------
(* getGVR *)

\* schema.GroupVersionResource{}
ZeroGVR == [Group |-> s_empty, Version |-> s_empty, Resource |-> s_empty]

\* the four ways getGVR returns
ErrNone      == "nil"
ErrClient    == "error creating discovery client"
ErrDiscovery == "API discovery failed"
ErrNotFound  == "resource type not found in cluster"

Failure(e) == [gvr |-> ZeroGVR, namespaced |-> FALSE, err |-> e]

\* a nil *APIResourceList
NilList == [IsNil |-> TRUE, GroupVersion |-> s_empty, APIResources |-> <<>>]

APIResourceList(gv, resources) ==
    [IsNil |-> FALSE, GroupVersion |-> gv, APIResources |-> resources]

\* altered: any discovery error is fatal, whatever came with it
DiscoveryFailed_OnAnyError(err, isNil) == err

\* line 30: the discovery error is fatal only with a nil result
DiscoveryFailed(err, isNil) == err /\ isNil

\* altered: the input is compared as typed
NormalizeResourceType_AsTyped(rt) == rt

\* line 37
NormalizeResourceType(rt) == ToLower(rt)

\* altered: sub-resources are not skipped
IsSubresource_Never(apiResource) == FALSE

\* line 47
IsSubresource(apiResource) == ContainsSlash(apiResource.Name)

\* altered: the kind is not compared
NameOrKindMatches_NameOnly(apiResource, resourceTypeLower) ==
    ToLower(apiResource.Name) = resourceTypeLower

\* line 58
NameOrKindMatches(apiResource, resourceTypeLower) ==
    \/ ToLower(apiResource.Name) = resourceTypeLower
    \/ ToLower(apiResource.Kind) = resourceTypeLower

\* lines 62-67: the loop over apiResource.ShortNames, from position k
RECURSIVE ShortNameMatches(_, _, _)
ShortNameMatches(shortNames, k, resourceTypeLower) ==
    IF k > Len(shortNames) THEN FALSE
    ELSE IF ToLower(shortNames[k]) = resourceTypeLower THEN TRUE
    ELSE ShortNameMatches(shortNames, k + 1, resourceTypeLower)

\* altered: the short names are not compared
Matched_WithoutShortNames(apiResource, resourceTypeLower) ==
    \/ ToLower(apiResource.Name) = resourceTypeLower
    \/ ToLower(apiResource.Kind) = resourceTypeLower

\* lines 58-68
Matched(apiResource, resourceTypeLower) ==
    \/ NameOrKindMatches(apiResource, resourceTypeLower)
    \/ ShortNameMatches(apiResource.ShortNames, 1, resourceTypeLower)

\* altered: a matched entry is returned whatever its group-version string
SkipUnparsable_Never(gvString) == FALSE

\* lines 72-75: a matched entry is skipped when its list's group-version
\* string does not parse
SkipUnparsable(gvString) == ParseGroupVersion(gvString).err

\* lines 77-83
Found(gvString, apiResource) ==
    [gvr |-> [Group    |-> ParseGroupVersion(gvString).Group,
              Version  |-> ParseGroupVersion(gvString).Version,
              Resource |-> apiResource.Name],
     namespaced |-> apiResource.Namespaced,
     err |-> ErrNone]

\* lines 45-85: the inner loop over one list's APIResources, from position j;
\* Failure(ErrNotFound) stands for "fell out of the loop"
RECURSIVE ScanResources(_, _, _)
ScanResources(list, j, resourceTypeLower) ==
    IF j > Len(list.APIResources) THEN Failure(ErrNotFound)
    ELSE LET apiResource == list.APIResources[j] IN
         IF IsSubresource(apiResource)
         THEN ScanResources(list, j + 1, resourceTypeLower)
         ELSE IF /\ Matched(apiResource, resourceTypeLower)
                 /\ ~SkipUnparsable(list.GroupVersion)
              THEN Found(list.GroupVersion, apiResource)
              ELSE ScanResources(list, j + 1, resourceTypeLower)

\* lines 40-88: the outer loop over apiResourceLists, from position i
RECURSIVE ScanLists(_, _, _)
ScanLists(lists, i, resourceTypeLower) ==
    IF i > Len(lists) THEN Failure(ErrNotFound)
    ELSE IF lists[i].IsNil THEN ScanLists(lists, i + 1, resourceTypeLower)
    ELSE LET r == ScanResources(lists[i], 1, resourceTypeLower) IN
         IF r.err = ErrNone THEN r
         ELSE ScanLists(lists, i + 1, resourceTypeLower)

\* lines 19-89
getGVR(rt, cErr, dErr, isNil, lists) ==
    IF cErr THEN Failure(ErrClient)
    ELSE IF DiscoveryFailed(dErr, isNil) THEN Failure(ErrDiscovery)
    ELSE ScanLists(lists, 1, NormalizeResourceType(rt))

-----------------------------------------------------------------------------
(* Documents: unstructured.Unstructured.Object, a tree of interface{}      *)
(* values as the JSON decoder builds it.  A value is a record with one     *)
(* field, named after its Go type.                                         *)

VNil       == [nil |-> TRUE]
VString(s) == [string |-> s]
VBool(b)   == [bool |-> b]
VMap(m)    == [map |-> m]        \* m: a function from keys to values
VSlice(q)  == [slice |-> q]      \* q: a sequence of values
\* an int64 n is written <<hi, lo>> with n = hi * Limb + lo and 0 <= lo < Limb
VInt64(hi, lo) == [int64 |-> <<hi, lo>>]

IsNil(val)    == "nil" \in DOMAIN val
IsString(val) == "string" \in DOMAIN val
IsBool(val)   == "bool" \in DOMAIN val
IsMap(val)    == "map" \in DOMAIN val
IsSlice(val)  == "slice" \in DOMAIN val
IsInt64(val)  == "int64" \in DOMAIN val

EmptyMap == <<>>

Limb == 65536

\* int32(n) of an int64 n: the low 32 bits, read as a signed number
ToInt32(n) == <<((n[1] + (Limb \div 2)) % Limb) - (Limb \div 2), n[2]>>

NotFound == [val |-> VNil, found |-> FALSE]

\* unstructured.NestedFieldNoCopy; the error is folded into found = FALSE,
\* which is how every caller in extractors.go reads it
RECURSIVE NestedFieldNoCopy(_, _)
NestedFieldNoCopy(val, fields) ==
    IF Len(fields) = 0 THEN [val |-> val, found |-> TRUE]
    ELSE IF IsNil(val) THEN NotFound
    ELSE IF IsMap(val)
         THEN IF Head(fields) \in DOMAIN val.map
              THEN NestedFieldNoCopy(val.map[Head(fields)], Tail(fields))
              ELSE NotFound
         ELSE NotFound

\* unstructured.NestedString
NestedString(obj, fields) ==
    LET r == NestedFieldNoCopy(obj, fields) IN
    IF r.found /\ IsString(r.val) THEN [val |-> r.val.string, found |-> TRUE]
    ELSE [val |-> "", found |-> FALSE]

\* unstructured.NestedBool
NestedBool(obj, fields) ==
    LET r == NestedFieldNoCopy(obj, fields) IN
    IF r.found /\ IsBool(r.val) THEN [val |-> r.val.bool, found |-> TRUE]
    ELSE [val |-> FALSE, found |-> FALSE]

\* unstructured.NestedInt64
NestedInt64(obj, fields) ==
    LET r == NestedFieldNoCopy(obj, fields) IN
    IF r.found /\ IsInt64(r.val) THEN [val |-> r.val.int64, found |-> TRUE]
    ELSE [val |-> <<0, 0>>, found |-> FALSE]

\* unstructured.NestedMap: the value, when it is a map
NestedMap(obj, fields) ==
    LET r == NestedFieldNoCopy(obj, fields) IN
    IF r.found /\ IsMap(r.val) THEN [val |-> r.val.map, found |-> TRUE]
    ELSE [val |-> EmptyMap, found |-> FALSE]

\* altered: the entries that are not strings are left out
NestedStringMap_SkipNonStrings(obj, fields) ==
    LET r == NestedMap(obj, fields) IN
    IF r.found
    THEN [val |-> [k \in {x \in DOMAIN r.val : IsString(r.val[x])} |->
                        r.val[k].string],
          found |-> TRUE]
    ELSE [val |-> EmptyMap, found |-> FALSE]

\* unstructured.NestedStringMap: a map all of whose values are strings, as a
\* map[string]string
NestedStringMap(obj, fields) ==
    LET r == NestedMap(obj, fields) IN
    IF r.found /\ \A k \in DOMAIN r.val : IsString(r.val[k])
    THEN [val |-> [k \in DOMAIN r.val |-> r.val[k].string], found |-> TRUE]
    ELSE [val |-> EmptyMap, found |-> FALSE]

\* unstructured.NestedSlice
NestedSlice(obj, fields) ==
    LET r == NestedFieldNoCopy(obj, fields) IN
    IF r.found /\ IsSlice(r.val) THEN [val |-> r.val.slice, found |-> TRUE]
    ELSE [val |-> <<>>, found |-> FALSE]

\* len() of a map
MapLen(m) == Cardinality(DOMAIN m)

\* item.GetKind()
GetKind(obj) == NestedString(obj, <<"kind">>).val

-----------------------------------------------------------------------------
(* getPodSpecPath *)

\* lines 18-21
templateKinds ==
    <<"Deployment", "StatefulSet", "DaemonSet", "ReplicaSet", "Job", "CronJob">>

\* altered: the kinds that came last in the list are missing
IsTemplateKind_FirstFour(kind) ==
    \E i \in 1..4 : kind = templateKinds[i]

\* lines 23-27
IsTemplateKind(kind) ==
    \E i \in 1..Len(templateKinds) : kind = templateKinds[i]

\* altered: the pod spec is looked for at the top-level spec of every kind
getPodSpecPath_TopLevel(obj) == <<"spec">>

\* lines 8-31
getPodSpecPath(obj) ==
    LET kind == GetKind(obj) IN
    IF kind = "Pod" THEN <<"spec">>
    ELSE IF IsTemplateKind(kind) THEN <<"spec", "template", "spec">>
    ELSE <<"spec">>

-----------------------------------------------------------------------------
(* extractSchedulingInfo *)

\* &SchedulingInfo{}: nil maps, slices and pointer, empty strings, false
ZeroSchedulingInfo ==
    [IsNil |-> FALSE,
     NodeSelector |-> VNil, NodeName |-> "", Affinity |-> VNil,
     Tolerations |-> VNil, TopologySpreadConstraints |-> VNil,
     ResourceRequests |-> VNil, ResourceLimits |-> VNil,
     SchedulerName |-> "", PriorityClassName |-> "", Priority |-> VNil,
     PreemptionPolicy |-> "", RuntimeClassName |-> "",
     HostNetwork |-> FALSE, HostPID |-> FALSE, HostIPC |-> FALSE]

\* a nil *SchedulingInfo
NilSchedulingInfo == [IsNil |-> TRUE]

\* altered: a declared map is taken whatever its size
NonEmptyMap_AnyLen(r) == r.found

\* "found && len(m) > 0" for the map-typed fields
NonEmptyMap(r) == r.found /\ MapLen(r.val) > 0

\* altered: a declared slice is taken whatever its length
NonEmptySlice_AnyLen(r) == r.found

\* "found && len(s) > 0" for the slice-typed fields
NonEmptySlice(r) == r.found /\ Len(r.val) > 0

\* altered: a declared string is taken whatever its value
NonEmptyString_AnyValue(r) == r.found

\* "found && s != """ for the string-typed fields
NonEmptyString(r) == r.found /\ r.val # ""

\* altered: a priority of zero is taken as no priority
PriorityFound_NonZero(r) == r.found /\ r.val # <<0, 0>>

\* lines 168 and 273: "found" alone decides for the numeric priority
PriorityFound(r) == r.found

\* altered: a host flag is taken only when it is true
BoolFound_OnlyTrue(r) == r.found /\ r.val

\* lines 287, 290 and 293: "found" alone decides for the host flags
BoolFound(r) == r.found

\* altered: the bundle is assigned whatever its size
NonEmptyBundle_AnySize(m) == TRUE

\* lines 261, 279 and 296: "len(m) > 0" for the bundles of the subcommands
NonEmptyBundle(m) == MapLen(m) > 0

\* m[key].(map[string]interface{}): the map under key, or "not ok"
AsMap(m, key) ==
    IF key \in DOMAIN m /\ IsMap(m[key])
    THEN [val |-> m[key].map, ok |-> TRUE]
    ELSE [val |-> EmptyMap, ok |-> FALSE]

\* altered: a later value that cannot be joined replaces the one stored
MergeQuantities_LastWins(acc, m) ==
    [k \in DOMAIN acc \cup DOMAIN m |->
        IF k \in DOMAIN acc
        THEN IF k \in DOMAIN m
             THEN IF IsString(acc[k]) /\ IsString(m[k])
                  THEN VString(acc[k].string \o "," \o m[k].string)
                  ELSE m[k]
             ELSE acc[k]
        ELSE m[k]]

\* altered: a key that is already there keeps its first value
MergeQuantities_KeepFirst(acc, m) ==
    [k \in DOMAIN acc \cup DOMAIN m |-> IF k \in DOMAIN acc THEN acc[k] ELSE m[k]]

\* lines 119-131 (and 134-144): one container's requests (limits) merged into
\* the running map
MergeQuantities(acc, m) ==
    [k \in DOMAIN acc \cup DOMAIN m |->
        IF k \in DOMAIN acc
        THEN IF k \in DOMAIN m /\ IsString(acc[k]) /\ IsString(m[k])
             THEN VString(acc[k].string \o "," \o m[k].string)
             ELSE acc[k]
        ELSE m[k]]

\* lines 242-244 (and 247-249) of extractSchedulingSubcommand: a later
\* container's value replaces the earlier one
OverwriteQuantities(acc, m) ==
    [k \in DOMAIN acc \cup DOMAIN m |-> IF k \in DOMAIN m THEN m[k] ELSE acc[k]]

\* lines 111-147 (and 234-252): the loop over containers, from position i;
\* which is "requests" or "limits", concat tells the two functions apart
RECURSIVE FoldContainers(_, _, _, _, _)
FoldContainers(containers, i, which, acc, concat) ==
    IF i > Len(containers) THEN acc
    ELSE IF ~IsMap(containers[i])
         THEN FoldContainers(containers, i + 1, which, acc, concat)
         ELSE LET resources == AsMap(containers[i].map, "resources")
                  quantities == AsMap(resources.val, which)
              IN IF resources.ok /\ quantities.ok
                 THEN FoldContainers(containers, i + 1, which,
                        IF concat THEN MergeQuantities(acc, quantities.val)
                                  ELSE OverwriteQuantities(acc, quantities.val),
                        concat)
                 ELSE FoldContainers(containers, i + 1, which, acc, concat)

\* lines 108-147
MergeContainers(containers, which) ==
    FoldContainers(containers, 1, which, EmptyMap, TRUE)

\* lines 149-154
NilIfEmpty(m) == IF MapLen(m) > 0 THEN VMap(m) ELSE VNil

\* altered: the host flags are left out of the test
NoSchedulingInfo_WithoutHostFlags(scheduling) ==
    /\ IsNil(scheduling.NodeSelector) /\ scheduling.NodeName = ""
    /\ IsNil(scheduling.Affinity)
    /\ (IsNil(scheduling.Tolerations) \/ Len(scheduling.Tolerations.slice) = 0)
    /\ (IsNil(scheduling.TopologySpreadConstraints)
            \/ Len(scheduling.TopologySpreadConstraints.slice) = 0)
    /\ IsNil(scheduling.ResourceRequests) /\ IsNil(scheduling.ResourceLimits)
    /\ scheduling.SchedulerName = "" /\ scheduling.PriorityClassName = ""
    /\ IsNil(scheduling.Priority)
    /\ scheduling.PreemptionPolicy = "" /\ scheduling.RuntimeClassName = ""

\* altered: the snapshot is returned as it was built
NoSchedulingInfo_Never(scheduling) == FALSE

\* lines 199-206
NoSchedulingInfo(scheduling) ==
    /\ IsNil(scheduling.NodeSelector) /\ scheduling.NodeName = ""
    /\ IsNil(scheduling.Affinity)
    /\ (IsNil(scheduling.Tolerations) \/ Len(scheduling.Tolerations.slice) = 0)
    /\ (IsNil(scheduling.TopologySpreadConstraints)
            \/ Len(scheduling.TopologySpreadConstraints.slice) = 0)
    /\ IsNil(scheduling.ResourceRequests) /\ IsNil(scheduling.ResourceLimits)
    /\ scheduling.SchedulerName = "" /\ scheduling.PriorityClassName = ""
    /\ IsNil(scheduling.Priority)
    /\ scheduling.PreemptionPolicy = "" /\ scheduling.RuntimeClassName = ""
    /\ ~scheduling.HostNetwork /\ ~scheduling.HostPID /\ ~scheduling.HostIPC

\* lines 77-209
extractSchedulingInfo(obj) ==
    LET specPath          == getPodSpecPath(obj)
        nodeSelector      == NestedStringMap(obj, Append(specPath, "nodeSelector"))
        nodeName          == NestedString(obj, Append(specPath, "nodeName"))
        affinity          == NestedMap(obj, Append(specPath, "affinity"))
        tolerations       == NestedSlice(obj, Append(specPath, "tolerations"))
        topology          == NestedSlice(obj, Append(specPath, "topologySpreadConstraints"))
        containers        == NestedSlice(obj, Append(specPath, "containers"))
        schedulerName     == NestedString(obj, Append(specPath, "schedulerName"))
        priorityClassName == NestedString(obj, Append(specPath, "priorityClassName"))
        priority          == NestedInt64(obj, Append(specPath, "priority"))
        preemptionPolicy  == NestedString(obj, Append(specPath, "preemptionPolicy"))
        runtimeClassName  == NestedString(obj, Append(specPath, "runtimeClassName"))
        hostNetwork       == NestedBool(obj, Append(specPath, "hostNetwork"))
        hostPID           == NestedBool(obj, Append(specPath, "hostPID"))
        hostIPC           == NestedBool(obj, Append(specPath, "hostIPC"))
        scheduling ==
            [IsNil |-> FALSE,
             NodeSelector |->
                IF NonEmptyMap(nodeSelector)
                THEN [stringmap |-> nodeSelector.val] ELSE VNil,
             NodeName |-> IF NonEmptyString(nodeName) THEN nodeName.val ELSE "",
             Affinity |-> IF NonEmptyMap(affinity) THEN VMap(affinity.val) ELSE VNil,
             Tolerations |->
                IF NonEmptySlice(tolerations) THEN VSlice(tolerations.val) ELSE VNil,
             TopologySpreadConstraints |->
                IF NonEmptySlice(topology) THEN VSlice(topology.val) ELSE VNil,
             ResourceRequests |->
                IF containers.found
                THEN NilIfEmpty(MergeContainers(containers.val, "requests"))
                ELSE VNil,
             ResourceLimits |->
                IF containers.found
                THEN NilIfEmpty(MergeContainers(containers.val, "limits"))
                ELSE VNil,
             SchedulerName |->
                IF NonEmptyString(schedulerName) THEN schedulerName.val ELSE "",
             PriorityClassName |->
                IF NonEmptyString(priorityClassName) THEN priorityClassName.val ELSE "",
             Priority |->
                IF PriorityFound(priority)
                THEN [int32 |-> ToInt32(priority.val)] ELSE VNil,
             PreemptionPolicy |->
                IF NonEmptyString(preemptionPolicy) THEN preemptionPolicy.val ELSE "",
             RuntimeClassName |->
                IF NonEmptyString(runtimeClassName) THEN runtimeClassName.val ELSE "",
             HostNetwork |-> IF hostNetwork.found THEN hostNetwork.val ELSE FALSE,
             HostPID     |-> IF hostPID.found THEN hostPID.val ELSE FALSE,
             HostIPC     |-> IF hostIPC.found THEN hostIPC.val ELSE FALSE]
    IN IF NoSchedulingInfo(scheduling) THEN NilSchedulingInfo ELSE scheduling

-----------------------------------------------------------------------------
(* extractSchedulingSubcommand *)

\* OutputItem{Name: item.GetName()}, as main builds it before extraction
FreshOutputItem ==
    [Name |-> "obj", Scheduling |-> NilSchedulingInfo,
     Tolerations |-> VNil, Affinity |-> VNil, NodeSelector |-> VNil,
     Resources |-> VNil, TopologySpreadConstraints |-> VNil,
     Priority |-> VNil, Runtime |-> VNil]

\* m[k] = v
Put(m, k, v) == [x \in DOMAIN m \cup {k} |-> IF x = k THEN v ELSE m[x]]

PutIf(cond, m, k, v) == IF cond THEN Put(m, k, v) ELSE m

\* lines 229-260
SubcommandResources(obj, specPath) ==
    LET containers == NestedSlice(obj, Append(specPath, "containers"))
        requests   == FoldContainers(containers.val, 1, "requests", EmptyMap, FALSE)
        limits     == FoldContainers(containers.val, 1, "limits", EmptyMap, FALSE)
    IN IF containers.found
       THEN PutIf(MapLen(limits) > 0,
                  PutIf(MapLen(requests) > 0, EmptyMap, "requests", VMap(requests)),
                  "limits", VMap(limits))
       ELSE EmptyMap

\* lines 269-278
SubcommandPriority(obj, specPath) ==
    LET priorityClassName == NestedString(obj, Append(specPath, "priorityClassName"))
        prio              == NestedInt64(obj, Append(specPath, "priority"))
        preemptionPolicy  == NestedString(obj, Append(specPath, "preemptionPolicy"))
    IN PutIf(NonEmptyString(preemptionPolicy),
             PutIf(PriorityFound(prio),
                   PutIf(NonEmptyString(priorityClassName), EmptyMap,
                         "priorityClassName", VString(priorityClassName.val)),
                   "priority", [int64 |-> prio.val]),
             "preemptionPolicy", VString(preemptionPolicy.val))

\* lines 283-295
SubcommandRuntime(obj, specPath) ==
    LET runtimeClassName == NestedString(obj, Append(specPath, "runtimeClassName"))
        hostNetwork      == NestedBool(obj, Append(specPath, "hostNetwork"))
        hostPID          == NestedBool(obj, Append(specPath, "hostPID"))
        hostIPC          == NestedBool(obj, Append(specPath, "hostIPC"))
    IN PutIf(BoolFound(hostIPC),
             PutIf(BoolFound(hostPID),
                   PutIf(BoolFound(hostNetwork),
                         PutIf(NonEmptyString(runtimeClassName), EmptyMap,
                               "runtimeClassName", VString(runtimeClassName.val)),
                         "hostNetwork", VBool(hostNetwork.val)),
                   "hostPID", VBool(hostPID.val)),
             "hostIPC", VBool(hostIPC.val))

\* lines 212-300: the output item after the call
extractSchedulingSubcommand(obj, out, subCmd) ==
    LET specPath == getPodSpecPath(obj) IN
    CASE subCmd = "tolerations" ->
            LET tolerations == NestedSlice(obj, Append(specPath, "tolerations")) IN
            IF NonEmptySlice(tolerations)
            THEN [out EXCEPT !.Tolerations = VSlice(tolerations.val)]
            ELSE out
      [] subCmd = "affinity" ->
            LET affinity == NestedMap(obj, Append(specPath, "affinity")) IN
            IF NonEmptyMap(affinity)
            THEN [out EXCEPT !.Affinity = VMap(affinity.val)]
            ELSE out
      [] subCmd = "nodeselector" ->
            LET nodeSelector == NestedStringMap(obj, Append(specPath, "nodeSelector")) IN
            IF NonEmptyMap(nodeSelector)
            THEN [out EXCEPT !.NodeSelector = [stringmap |-> nodeSelector.val]]
            ELSE out
      [] subCmd = "resources" ->
            LET resources == SubcommandResources(obj, specPath) IN
            IF NonEmptyBundle(resources)
            THEN [out EXCEPT !.Resources = VMap(resources)]
            ELSE out
      [] subCmd = "topology" ->
            LET topology == NestedSlice(obj, Append(specPath, "topologySpreadConstraints")) IN
            IF NonEmptySlice(topology)
            THEN [out EXCEPT !.TopologySpreadConstraints = VSlice(topology.val)]
            ELSE out
      [] subCmd = "priority" ->
            LET priority == SubcommandPriority(obj, specPath) IN
            IF NonEmptyBundle(priority)
            THEN [out EXCEPT !.Priority = VMap(priority)]
            ELSE out
      [] subCmd = "runtime" ->
            LET runtime == SubcommandRuntime(obj, specPath) IN
            IF NonEmptyBundle(runtime)
            THEN [out EXCEPT !.Runtime = VMap(runtime)]
            ELSE out
      [] OTHER -> out

-----------------------------------------------------------------------------
(* getResources *)

\* client.Resource(gvr): requests that are not scoped to a namespace
Unscoped == ""

\* lines 102-111: the namespace the requests are scoped to
ResourceInterface(isNamespaced, ns) ==
    IF isNamespaced
    THEN IF ns = "" THEN Unscoped ELSE ns
    ELSE Unscoped

\* a nil labels.Selector, and one parsed from a string
NilSelector == [IsNil |-> TRUE, String |-> ""]
Selector(str) == [IsNil |-> FALSE, String |-> str]

\* the requests sent to the cluster
GetCall(ns, name) ==
    [verb |-> "Get", namespace |-> ns, name |-> name, labelSelector |-> ""]
ListCall(ns, selector) ==
    [verb |-> "List", namespace |-> ns, name |-> "", labelSelector |-> selector]

\* what the cluster answers to a Get: an error, or the object, which either
\* carries the labels the selector asks for or does not
GetOutcomes == {"error", "plain", "labelled"}

Object(name, outcome) == [Name |-> name, Labelled |-> outcome = "labelled"]

\* a nil []unstructured.Unstructured, and a slice
NilItems == [IsNil |-> TRUE, Items |-> <<>>]
Items(q) == [IsNil |-> FALSE, Items |-> q]

ErrGetting(name) == "error getting " \o name
ErrListing == "error listing resources"

\* altered: a name whose Get fails is passed over and the loop goes on
RECURSIVE GetEach_SkipFailed(_, _, _, _, _, _)
GetEach_SkipFailed(names, i, ns, objs, acc, log) ==
    IF i > Len(names) THEN [items |-> Items(acc), err |-> ErrNone, calls |-> log]
    ELSE IF objs[names[i]] = "error"
         THEN GetEach_SkipFailed(names, i + 1, ns, objs, acc,
                                 Append(log, GetCall(ns, names[i])))
         ELSE GetEach_SkipFailed(names, i + 1, ns, objs,
                                 Append(acc, Object(names[i], objs[names[i]])),
                                 Append(log, GetCall(ns, names[i])))

\* lines 117-123: the loop over resourceNames, from position i; acc is items,
\* log the requests issued so far
RECURSIVE GetEach(_, _, _, _, _, _)
GetEach(names, i, ns, objs, acc, log) ==
    IF i > Len(names) THEN [items |-> Items(acc), err |-> ErrNone, calls |-> log]
    ELSE IF objs[names[i]] = "error"
         THEN [items |-> NilItems, err |-> ErrGetting(names[i]),
               calls |-> Append(log, GetCall(ns, names[i]))]
         ELSE GetEach(names, i + 1, ns, objs,
                      Append(acc, Object(names[i], objs[names[i]])),
                      Append(log, GetCall(ns, names[i])))

\* the order in which the cluster lists its objects
ListOrder == <<"a", "b", "c">>

\* the answer of the cluster to a List with the given selector string
ListAnswer(objs, selector) ==
    LET listed == SelectSeq(ListOrder,
                    LAMBDA n : \/ objs[n] = "labelled"
                               \/ (objs[n] = "plain" /\ selector = ""))
    IN [n \in 1..Len(listed) |-> Object(listed[n], objs[listed[n]])]

\* altered: the selector is never put into the list options
ListOptions_NoSelector(selector) == ""

\* lines 126-129
ListOptions(selector) == IF selector.IsNil THEN "" ELSE selector.String

\* lines 125-136
ListAll(ns, selector, objs, lErr) ==
    IF lErr
    THEN [items |-> NilItems, err |-> ErrListing,
          calls |-> <<ListCall(ns, ListOptions(selector))>>]
    ELSE [items |-> Items(ListAnswer(objs, ListOptions(selector))),
          err |-> ErrNone,
          calls |-> <<ListCall(ns, ListOptions(selector))>>]

\* lines 92-140
getResources(isNamespaced, ns, names, selector, objs, lErr) ==
    IF Len(names) > 0
    THEN GetEach(names, 1, ResourceInterface(isNamespaced, ns), objs, <<>>, <<>>)
    ELSE ListAll(ResourceInterface(isNamespaced, ns), selector, objs, lErr)

\* no getResources call was made
NoRetrieved == [items |-> NilItems, err |-> "none"]

NoRetrieval ==
    /\ namespaced = FALSE /\ namespace = "" /\ resourceNames = <<>>
    /\ labelSelector = NilSelector
    /\ objects = [n \in {} |-> "error"] /\ listErr = FALSE
    /\ apiCalls = <<>> /\ retrieved = NoRetrieved

\* main has not exited
Running == -1

\* main's locals before they are assigned
NoCommand ==
    [cmdType |-> <<>>, subCommand |-> <<>>, resourceType |-> <<>>, argsOffset |-> 0]

\* the flag variables before fs.Parse: lines 202-212 give each its default
DefaultFlags ==
    [namespace |-> <<>>, allNamespaces |-> FALSE, selector |-> <<>>,
     outputFormat |-> <<"j", "s", "o", "n">>, colorOutput |-> FALSE,
     Args |-> <<>>]

\* Output{} before main fills it
NoOutput == [Items |-> <<>>]

\* main was not run
NoMain ==
    /\ osArgs = <<>> /\ kubeconfigErr = FALSE
    /\ command = NoCommand /\ flagSet = DefaultFlags /\ mainCalls = <<>>
    /\ cmdType = "" /\ outputFormat = <<>> /\ colorOutput = FALSE
    /\ items = <<>> /\ output = NoOutput
    /\ stdout = <<>> /\ stderr = <<>> /\ exitCode = Running

-----------------------------------------------------------------------------
(* The catalogs and inputs getGVR is run on *)

APIResource(name, kind, shortNames, isNamespaced) ==
    [Name |-> name, Kind |-> kind, ShortNames |-> shortNames,
     Namespaced |-> isNamespaced]

r_pods    == APIResource(s_pods, s_Pod, <<s_po>>, TRUE)
r_podslog == APIResource(s_podslog, s_Log, <<s_pl>>, TRUE)
r_logs    == APIResource(s_logs, s_Log, <<>>, FALSE)
\* a type whose second short name is another type's plural name
r_podsets == APIResource(s_podsets, s_PodSet, <<s_ps, s_pods>>, FALSE)

ResourceSeqs ==
    { <<>>,
      <<r_pods>>,
      <<r_podslog>>,
      <<r_podslog, r_logs>>,
      <<r_podsets, r_pods>>,
      <<r_pods, r_podsets>> }

\* the core group takes every sequence; another group, an unparsable
\* group-version string and the empty one take some
ListPool ==
    {NilList} \cup
    {APIResourceList(s_v1, rs) : rs \in ResourceSeqs} \cup
    { APIResourceList(s_apps_v1, <<r_pods>>),
      APIResourceList(s_apps_v1, <<r_pods, r_podsets>>),
      APIResourceList(s_a_b_c, <<r_pods>>),
      APIResourceList(s_a_b_c, <<r_podslog, r_logs>>),
      APIResourceList(s_empty, <<r_logs>>) }

SeqsUpTo(S, n) == UNION {[1..k -> S] : k \in 0..n}

Catalogs == SeqsUpTo(ListPool, MaxLists)

ResourceTypes ==
    {s_pods, s_Pods, s_PODS, s_Pod, s_po, s_log, s_podslog, s_pl, s_nodes}

-----------------------------------------------------------------------------
(* Specification of the resolver: Init draws what a getGVR call meets,     *)
(* GetGVR is one call; calls repeat against the same discovery answer.     *)

NoResult == [gvr |-> ZeroGVR, namespaced |-> FALSE, err |-> "none"]

InitResolve ==
    /\ calls = "none"
    /\ item = VMap(EmptyMap) /\ subCommand = "" /\ podSpecPath = <<>>
    /\ outputItem = FreshOutputItem
    /\ NoRetrieval
    /\ NoMain
    /\ resourceType = s_empty
    /\ resolved = NoResult
    /\ \/ \* the discovery client cannot be built: discovery is never called
          /\ clientErr = TRUE
          /\ discErr = FALSE /\ listsNil = TRUE /\ apiResourceLists = <<>>
       \/ \* discovery returns a nil slice, with or without an error
          /\ clientErr = FALSE
          /\ discErr \in BOOLEAN /\ listsNil = TRUE /\ apiResourceLists = <<>>
       \/ \* discovery returns a slice (which may be empty or hold nil
          \* lists), with or without an error for the groups that failed
          /\ clientErr = FALSE
          /\ discErr \in BOOLEAN /\ listsNil = FALSE
          /\ apiResourceLists \in Catalogs

GetGVR(rt) ==
    /\ resourceType' = rt
    /\ resolved' = getGVR(rt, clientErr, discErr, listsNil, apiResourceLists)
    /\ calls' = "getGVR"
    /\ UNCHANGED <<clientErr, discErr, listsNil, apiResourceLists>>
    /\ UNCHANGED extractVars
    /\ UNCHANGED retrieveVars
    /\ UNCHANGED mainVars

NextResolve == \E rt \in ResourceTypes : GetGVR(rt)

SpecResolve == InitResolve /\ [][NextResolve]_vars

-----------------------------------------------------------------------------
(* The documents the extractors are run on *)

\* map without the key k
Remove(m, k) == [x \in DOMAIN m \ {k} |-> m[x]]

TolerationX == VMap([key |-> VString("gpu"), operator |-> VString("Exists")])
TolerationY == VMap([key |-> VString("spot"), operator |-> VString("Exists")])
ConstraintT == VMap([topologyKey |-> VString("zone")])

Quantities(cpu) == VMap([cpu |-> VString(cpu)])

ContainerApp ==
    VMap([name |-> VString("app"),
          resources |-> VMap([requests |-> Quantities("1"), limits |-> Quantities("2")])])
ContainerSidecar ==
    VMap([name |-> VString("sidecar"),
          resources |-> VMap([requests |-> Quantities("2")])])
ContainerBare == VMap([name |-> VString("bare")])

\* the keys read under the pod spec
SpecKeys ==
    {"nodeSelector", "nodeName", "affinity", "tolerations",
     "topologySpreadConstraints", "containers", "schedulerName",
     "priorityClassName", "priority", "preemptionPolicy", "runtimeClassName",
     "hostNetwork", "hostPID", "hostIPC"}

StringKeys ==
    {"nodeName", "schedulerName", "priorityClassName", "preemptionPolicy",
     "runtimeClassName"}

BoolKeys == {"hostNetwork", "hostPID", "hostIPC"}

\* a pod spec with every scheduling key set
FullSpec ==
    [nodeSelector |-> VMap([disk |-> VString("ssd")]),
     nodeName |-> VString("node-1"),
     affinity |-> VMap([nodeAffinity |-> VMap(EmptyMap)]),
     tolerations |-> VSlice(<<TolerationX>>),
     topologySpreadConstraints |-> VSlice(<<ConstraintT>>),
     containers |-> VSlice(<<ContainerApp, ContainerSidecar>>),
     schedulerName |-> VString("custom"),
     priorityClassName |-> VString("high"),
     priority |-> VInt64(0, 5),
     preemptionPolicy |-> VString("Never"),
     runtimeClassName |-> VString("gvisor"),
     hostNetwork |-> VBool(TRUE),
     hostPID |-> VBool(FALSE),
     hostIPC |-> VBool(FALSE)]

\* a pod spec whose only scheduling keys are the host flags, all false
HostFlagsOff ==
    [hostNetwork |-> VBool(FALSE), hostPID |-> VBool(FALSE), hostIPC |-> VBool(FALSE)]

Profiles == {EmptyMap, FullSpec, HostFlagsOff}

\* the values a key is given besides the one of FullSpec: empty, of another
\* type, null, or another value
OtherValues(k) ==
    CASE k = "nodeSelector" ->
            {VMap(EmptyMap), VMap([disk |-> VInt64(0, 1)]),
             VMap([disk |-> VString("ssd"), rack |-> VInt64(0, 1)]),
             VString("ssd"), VNil}
      [] k = "affinity" -> {VMap(EmptyMap), VSlice(<<>>), VNil}
      [] k = "tolerations" ->
            {VSlice(<<>>), VSlice(<<TolerationY, TolerationX>>), VMap(EmptyMap), VNil}
      [] k = "topologySpreadConstraints" -> {VSlice(<<>>), VString("zone")}
      [] k = "containers" ->
            {VSlice(<<>>), VSlice(<<ContainerBare>>), VSlice(<<VString("app"), ContainerApp>>),
             VMap(EmptyMap)}
      [] k = "priority" ->
            {VInt64(0, 0), VInt64(Limb \div 2, 0), VInt64(-1, Limb - 1), VString("5")}
      [] k \in StringKeys -> {VString(""), VInt64(0, 7)}
      [] k \in BoolKeys -> {VBool(TRUE), VBool(FALSE), VString("true")}

\* a profile with one key dropped or set to another value
Variants(profile) ==
    {profile}
    \cup {Remove(profile, k) : k \in SpecKeys}
    \cup UNION {{Put(profile, k, v) : v \in OtherValues(k)} : k \in SpecKeys}

PodSpecs == UNION {Variants(profile) : profile \in Profiles}

\* what stands at the place the pod spec is not read from
DecoySpec ==
    [nodeSelector |-> VMap([zone |-> VString("b")]),
     nodeName |-> VString("decoy"),
     tolerations |-> VSlice(<<TolerationY>>),
     priority |-> VInt64(0, 9),
     hostPID |-> VBool(TRUE)]

Placements == {"direct", "nested", "directOverDecoy", "nestedUnderDecoy"}

\* the value of the document's top-level "spec"
Placed(podSpec, placement) ==
    CASE placement = "direct" -> VMap(podSpec)
      [] placement = "nested" ->
            VMap([template |-> VMap([spec |-> VMap(podSpec)])])
      [] placement = "directOverDecoy" ->
            VMap(Put(podSpec, "template", VMap([spec |-> VMap(DecoySpec)])))
      [] placement = "nestedUnderDecoy" ->
            VMap(Put(DecoySpec, "template", VMap([spec |-> VMap(podSpec)])))

Document(kind, spec) == VMap([kind |-> VString(kind), spec |-> spec])

MainKinds == {"Pod", "Deployment"}

Kinds ==
    {"Pod", "Deployment", "StatefulSet", "DaemonSet", "ReplicaSet", "Job",
     "CronJob", "deployment", "JOB", "Node", "PodTemplate", ""}

Documents ==
    {Document(kind, Placed(podSpec, placement)) :
        kind \in MainKinds, podSpec \in PodSpecs, placement \in Placements}
    \cup
    {Document(kind, Placed(FullSpec, placement)) :
        kind \in Kinds, placement \in Placements}
    \cup
    \* no kind, a kind that is not a string, no spec, a spec or a template
    \* that is not a mapping
    { VMap([spec |-> VMap(FullSpec)]),
      VMap([kind |-> VInt64(0, 1), spec |-> VMap(FullSpec)]),
      VMap([kind |-> VString("Pod")]),
      VMap([kind |-> VString("Pod"), spec |-> VString("none")]),
      VMap([kind |-> VString("Deployment"), spec |-> VNil]),
      VMap([kind |-> VString("Deployment"),
            spec |-> VMap([template |-> VString("none")])]),
      VMap([kind |-> VString("Deployment"),
            spec |-> VMap([template |-> VMap([spec |-> VSlice(<<>>)])])]) }

SubCommands ==
    {"tolerations", "affinity", "nodeselector", "resources", "topology",
     "priority", "runtime", "nodeSelector"}

-----------------------------------------------------------------------------
(* Specification of the extractors: Init draws the document, each action   *)
(* is one call on it.                                                      *)

InitExtract ==
    /\ calls = "none"
    /\ clientErr = FALSE /\ discErr = FALSE /\ listsNil = TRUE
    /\ apiResourceLists = <<>> /\ resourceType = s_empty /\ resolved = NoResult
    /\ item \in Documents
    /\ subCommand = "" /\ podSpecPath = <<>>
    /\ outputItem = FreshOutputItem
    /\ NoRetrieval
    /\ NoMain

GetPodSpecPath ==
    /\ calls' = "getPodSpecPath"
    /\ podSpecPath' = getPodSpecPath(item)
    /\ subCommand' = "" /\ outputItem' = FreshOutputItem
    /\ UNCHANGED <<item, clientErr, discErr, listsNil, apiResourceLists,
                   resourceType, resolved>>
    /\ UNCHANGED retrieveVars
    /\ UNCHANGED mainVars

\* main, case "scheduling" with no subcommand
ExtractSchedulingInfo ==
    /\ calls' = "extractSchedulingInfo"
    /\ outputItem' = [FreshOutputItem EXCEPT !.Scheduling = extractSchedulingInfo(item)]
    /\ subCommand' = "" /\ podSpecPath' = <<>>
    /\ UNCHANGED <<item, clientErr, discErr, listsNil, apiResourceLists,
                   resourceType, resolved>>
    /\ UNCHANGED retrieveVars
    /\ UNCHANGED mainVars

\* main, case "scheduling" with a subcommand
ExtractSchedulingSubcommand(subCmd) ==
    /\ calls' = "extractSchedulingSubcommand"
    /\ outputItem' = extractSchedulingSubcommand(item, FreshOutputItem, subCmd)
    /\ subCommand' = subCmd /\ podSpecPath' = <<>>
    /\ UNCHANGED <<item, clientErr, discErr, listsNil, apiResourceLists,
                   resourceType, resolved>>
    /\ UNCHANGED retrieveVars
    /\ UNCHANGED mainVars

NextExtract ==
    \/ GetPodSpecPath
    \/ ExtractSchedulingInfo
    \/ \E subCmd \in SubCommands : ExtractSchedulingSubcommand(subCmd)

SpecExtract == InitExtract /\ [][NextExtract]_vars

-----------------------------------------------------------------------------
(* Specification of the retrieval: Init draws the arguments and the        *)
(* cluster, GetResources is one call.                                      *)

Names == {"a", "b", "c"}

NameSeqs == SeqsUpTo(Names, MaxNames)

Namespaces == {"", "prod"}

Selectors == {NilSelector, Selector("app=web")}

InitRetrieve ==
    /\ calls = "none"
    /\ clientErr = FALSE /\ discErr = FALSE /\ listsNil = TRUE
    /\ apiResourceLists = <<>> /\ resourceType = s_empty /\ resolved = NoResult
    /\ item = VMap(EmptyMap) /\ subCommand = "" /\ podSpecPath = <<>>
    /\ outputItem = FreshOutputItem
    /\ namespaced \in BOOLEAN
    /\ namespace \in Namespaces
    /\ resourceNames \in NameSeqs
    /\ labelSelector \in Selectors
    /\ objects \in [Names -> GetOutcomes]
    /\ listErr \in BOOLEAN
    /\ apiCalls = <<>>
    /\ retrieved = NoRetrieved
    /\ NoMain

GetResources ==
    /\ calls' = "getResources"
    /\ LET r == getResources(namespaced, namespace, resourceNames, labelSelector,
                             objects, listErr)
       IN /\ apiCalls' = r.calls
          /\ retrieved' = [items |-> r.items, err |-> r.err]
    /\ UNCHANGED <<namespaced, namespace, resourceNames, labelSelector, objects,
                   listErr>>
    /\ UNCHANGED resolveVars
    /\ UNCHANGED extractVars
    /\ UNCHANGED mainVars

NextRetrieve == GetResources

SpecRetrieve == InitRetrieve /\ [][NextRetrieve]_vars

-----------------------------------------------------------------------------
(* What the resolver's claims speak of, stated without the scanning loops *)

\* the positions <<list, entry>> of a discovery result, and their order
Entries(lists) ==
    UNION { {<<i, j>> : j \in 1..Len(lists[i].APIResources)} :
            i \in {k \in 1..Len(lists) : ~lists[k].IsNil} }

EntryAt(lists, p) == lists[p[1]].APIResources[p[2]]

Precedes(p, q) == p[1] < q[1] \/ (p[1] = q[1] /\ p[2] < q[2])

\* two strings that differ at most in letter case
SameUpToCase(a, b) ==
    /\ Len(a) = Len(b)
    /\ \A i \in 1..Len(a) : ToLowerChar(a[i]) = ToLowerChar(b[i])

\* the entry is matched by the input: by plural name, kind or a short alias
KeyMatches(e, input) ==
    \/ SameUpToCase(e.Name, input)
    \/ SameUpToCase(e.Kind, input)
    \/ \E k \in 1..Len(e.ShortNames) : SameUpToCase(e.ShortNames[k], input)

\* the entries that are not sub-resources and match the input
Candidates(lists, input) ==
    {p \in Entries(lists) :
        /\ ~ContainsSlash(EntryAt(lists, p).Name)
        /\ KeyMatches(EntryAt(lists, p), input)}

\* a group-version string "version" or "group/version"
Parsable(gv) == CountSlash(gv) <= 1

ParsableCandidates(lists, input) ==
    {p \in Candidates(lists, input) : Parsable(lists[p[1]].GroupVersion)}

First(S) == CHOOSE p \in S : \A q \in S : p = q \/ Precedes(p, q)

\* the coordinate of the entry at p
CoordinateOf(lists, p) ==
    [gvr |-> [Group    |-> ParseGroupVersion(lists[p[1]].GroupVersion).Group,
              Version  |-> ParseGroupVersion(lists[p[1]].GroupVersion).Version,
              Resource |-> EntryAt(lists, p).Name],
     namespaced |-> EntryAt(lists, p).Namespaced,
     err |-> ErrNone]

\* getGVR was called and went on to scan the catalog
Scanned == calls = "getGVR" /\ ~clientErr /\ ~(discErr /\ listsNil)

\* the call as it would go for another input against the same discovery answer
Resolve(input) == getGVR(input, clientErr, discErr, listsNil, apiResourceLists)

-----------------------------------------------------------------------------
\* C1 as stated: getGVR returns the coordinate of the first entry, in catalog
\* order, that is not a sub-resource and is matched by the input through its
\* plural name, kind or a short alias.
C1_FirstMatchAnyGroupVersion ==
    (Scanned /\ Candidates(apiResourceLists, resourceType) # {}) =>
        LET p == First(Candidates(apiResourceLists, resourceType)) IN
        /\ resolved.err = ErrNone
        /\ resolved.gvr.Resource = EntryAt(apiResourceLists, p).Name
        /\ resolved.namespaced = EntryAt(apiResourceLists, p).Namespaced

\* C1 amended: getGVR returns the coordinate of the first entry, in catalog
\* order, that is not a sub-resource, is matched by the input through its
\* plural name, kind or a short alias, and stands in a resource list whose
\* group-version string parses.
C1_FirstMatch ==
    (Scanned /\ ParsableCandidates(apiResourceLists, resourceType) # {}) =>
        resolved = CoordinateOf(apiResourceLists,
                       First(ParsableCandidates(apiResourceLists, resourceType)))

\* C1 witness: the returned entry matched only by a short alias, and two
\* later entries of different groups carry the input as their plural name.
C1_Witness ==
    /\ Scanned
    /\ resolved.err = ErrNone
    /\ ~SameUpToCase(resolved.gvr.Resource, resourceType)
    /\ \E p, q \in ParsableCandidates(apiResourceLists, resourceType) :
          /\ Precedes(p, q)
          /\ p[1] # q[1]
          /\ apiResourceLists[p[1]].GroupVersion # apiResourceLists[q[1]].GroupVersion
          /\ EntryAt(apiResourceLists, p).Name = resourceType
          /\ EntryAt(apiResourceLists, q).Name = resourceType

-----------------------------------------------------------------------------
\* C2: resolution is case-insensitive: every input that differs from the
\* resolved one only in letter case gets the same result.
C2_CaseInsensitive ==
    calls = "getGVR" =>
        \A other \in ResourceTypes :
            SameUpToCase(other, resourceType) => Resolve(other) = resolved

\* C2 witness: an upper-case input resolved to a lower-case plural name.
C2_Witness ==
    /\ calls = "getGVR"
    /\ resourceType = s_PODS
    /\ resolved.err = ErrNone
    /\ resolved.gvr.Resource = s_pods

-----------------------------------------------------------------------------
\* the entry at p is the first entry of the catalog matched by the input
IsFirstMatchFor(p, input) ==
    /\ p \in Candidates(apiResourceLists, input)
    /\ p = First(Candidates(apiResourceLists, input))

\* the inputs that name the entry at p: its plural name, its kind and its
\* short aliases, each being first matched by that entry
NamesEntry(p) ==
    LET e == EntryAt(apiResourceLists, p) IN
    /\ ~ContainsSlash(e.Name)
    /\ Len(e.ShortNames) > 0
    /\ IsFirstMatchFor(p, e.Name)
    /\ IsFirstMatchFor(p, e.Kind)

AliasesNaming(p) ==
    {k \in 1..Len(EntryAt(apiResourceLists, p).ShortNames) :
        IsFirstMatchFor(p, EntryAt(apiResourceLists, p).ShortNames[k])}

\* C3 as stated: when an entry E is the first match for its plural name, its
\* kind and one of its short aliases, resolving by any of the three gives the
\* same result, and a coordinate returned carries E's plural name.
C3_AliasEquivalenceAnyGroupVersion ==
    Scanned =>
        \A p \in Entries(apiResourceLists) :
            (NamesEntry(p) /\ AliasesNaming(p) # {}) =>
                LET e == EntryAt(apiResourceLists, p) IN
                \A k \in AliasesNaming(p) :
                    /\ Resolve(e.Name) = Resolve(e.Kind)
                    /\ Resolve(e.Name) = Resolve(e.ShortNames[k])
                    /\ (resourceType \in {e.Name, e.Kind, e.ShortNames[k]} =>
                            /\ resolved = Resolve(e.Name)
                            /\ (resolved.err = ErrNone =>
                                    resolved.gvr.Resource = e.Name))

\* C3 amended: when an entry E, standing in a list whose group-version string
\* parses, is the first match for its plural name, its kind and one of its
\* short aliases, resolving by any of the three succeeds with the same
\* coordinate (E's group, version and plural name) and namespaced flag.
C3_AliasEquivalence ==
    Scanned =>
        \A p \in Entries(apiResourceLists) :
            (/\ NamesEntry(p) /\ AliasesNaming(p) # {}
             /\ Parsable(apiResourceLists[p[1]].GroupVersion)) =>
                LET e == EntryAt(apiResourceLists, p) IN
                \A k \in AliasesNaming(p) :
                    /\ Resolve(e.Name) = CoordinateOf(apiResourceLists, p)
                    /\ Resolve(e.Kind) = CoordinateOf(apiResourceLists, p)
                    /\ Resolve(e.ShortNames[k]) = CoordinateOf(apiResourceLists, p)
                    /\ (resourceType \in {e.Name, e.Kind, e.ShortNames[k]} =>
                            resolved = CoordinateOf(apiResourceLists, p))

\* C3 witness: the short alias "po" was resolved to the entry "pods", which
\* is also the first match for "pods" and for "Pod".
C3_Witness ==
    /\ Scanned
    /\ resourceType = s_po
    /\ resolved.err = ErrNone
    /\ resolved.gvr.Resource = s_pods
    /\ \E p \in Entries(apiResourceLists) :
          /\ EntryAt(apiResourceLists, p) = r_pods
          /\ NamesEntry(p)
          /\ AliasesNaming(p) # {}
          /\ Parsable(apiResourceLists[p[1]].GroupVersion)

-----------------------------------------------------------------------------
\* the discovery result with every sub-resource entry taken out
WithoutSubresources(lists) ==
    [i \in 1..Len(lists) |->
        [lists[i] EXCEPT !.APIResources =
            SelectSeq(lists[i].APIResources,
                      LAMBDA e : ~ContainsSlash(e.Name))]]

HasSubresource(lists) ==
    \E p \in Entries(lists) : ContainsSlash(EntryAt(lists, p).Name)

\* C4: getGVR never returns a coordinate whose resource name contains "/",
\* and the sub-resource entries change nothing: the result is the one the
\* same catalog without them gives.
C4_SubresourceExclusion ==
    calls = "getGVR" =>
        /\ ~ContainsSlash(resolved.gvr.Resource)
        /\ resolved = getGVR(resourceType, clientErr, discErr, listsNil,
                             WithoutSubresources(apiResourceLists))

\* C4 witness: "log" is the kind of the sub-resource pods/log and of the
\* later entry logs; the later entry was returned.
C4_Witness ==
    /\ Scanned
    /\ resourceType = s_log
    /\ resolved.err = ErrNone
    /\ resolved.gvr.Resource = s_logs
    /\ \E p, q \in Entries(apiResourceLists) :
          /\ Precedes(p, q)
          /\ EntryAt(apiResourceLists, p) = r_podslog
          /\ EntryAt(apiResourceLists, q) = r_logs

-----------------------------------------------------------------------------
\* C5: a discovery error that comes with a non-empty list of resource groups
\* changes nothing: the result is the one the same list without the error
\* gives, and it is not the discovery error.
C5_PartialCatalog ==
    (calls = "getGVR" /\ ~clientErr /\ discErr /\ Len(apiResourceLists) > 0) =>
        /\ resolved = getGVR(resourceType, FALSE, FALSE, FALSE, apiResourceLists)
        /\ resolved.err # ErrDiscovery

\* C5 witness: discovery failed for a group (a nil list) and a type of
\* another group was resolved.
C5_Witness ==
    /\ calls = "getGVR" /\ ~clientErr /\ discErr
    /\ \E i \in 1..Len(apiResourceLists) : apiResourceLists[i].IsNil
    /\ resolved.err = ErrNone

-----------------------------------------------------------------------------
-----------------------------------------------------------------------------
\* C7: a failed discovery call that yields no catalog entry at all is
\* signalled as CatalogUnavailable ("API discovery failed"), not NotFound;
\* a call that succeeds, or fails with entries, never is.
C7_CatalogUnavailable ==
    (calls = "getGVR" /\ ~clientErr) =>
        /\ (discErr /\ Entries(apiResourceLists) = {}) =>
               resolved.err = ErrDiscovery
        /\ (~discErr \/ Entries(apiResourceLists) # {}) =>
               resolved.err # ErrDiscovery

-----------------------------------------------------------------------------
(* What the extractors' claims speak of, read off the document directly *)

\* the document's declared kind; "" when there is none
KindOf(doc) ==
    IF "kind" \in DOMAIN doc.map /\ IsString(doc.map["kind"])
    THEN doc.map["kind"].string ELSE ""

TemplateWrappingKinds ==
    {"Deployment", "StatefulSet", "DaemonSet", "ReplicaSet", "Job", "CronJob"}

\* the value at a path of keys, VNil when the path leaves the document
RECURSIVE ValueAt(_, _)
ValueAt(val, path) ==
    IF Len(path) = 0 THEN val
    ELSE IF IsMap(val) /\ Head(path) \in DOMAIN val.map
         THEN ValueAt(val.map[Head(path)], Tail(path))
         ELSE VNil

\* the path is a chain of mappings that ends in a mapping with key k
RECURSIVE Declares(_, _, _)
Declares(val, path, k) ==
    IF ~IsMap(val) THEN FALSE
    ELSE IF Len(path) = 0 THEN k \in DOMAIN val.map
    ELSE /\ Head(path) \in DOMAIN val.map
         /\ Declares(val.map[Head(path)], Tail(path), k)

\* the document without key k in the mapping at the path
RECURSIVE WithoutKey(_, _, _)
WithoutKey(val, path, k) ==
    IF Len(path) = 0 THEN VMap(Remove(val.map, k))
    ELSE VMap([val.map EXCEPT ![Head(path)] = WithoutKey(@, Tail(path), k)])

\* the tolerations of a snapshot; VNil when absent or when there is no snapshot
SnapshotTolerations(scheduling) ==
    IF scheduling.IsNil THEN VNil ELSE scheduling.Tolerations

\* a sequence-typed key as the extractors must report it: the sequence when
\* it is declared non-empty, else absent
ReportedSequence(val) ==
    IF IsSlice(val) /\ val.slice # <<>> THEN val ELSE VNil

\* the document with nothing but the template left under its top-level spec
OnlyTemplate(doc) ==
    IF Declares(doc, <<>>, "spec") /\ IsMap(doc.map["spec"])
    THEN VMap([doc.map EXCEPT !["spec"] =
                VMap([k \in DOMAIN @.map \cap {"template"} |-> @.map[k]])])
    ELSE doc

-----------------------------------------------------------------------------
\* C8: getPodSpecPath returns <<spec, template, spec>> exactly for the kinds
\* Deployment, StatefulSet, DaemonSet, ReplicaSet, Job and CronJob, and
\* <<spec>> for Pod and every other kind, the empty kind and case variants
\* included; it returns for every document.
C8_PodSpecPath ==
    calls = "getPodSpecPath" =>
        podSpecPath = IF KindOf(item) \in TemplateWrappingKinds
                      THEN <<"spec", "template", "spec">>
                      ELSE <<"spec">>

\* C8 witness: the path of a CronJob was asked for and is the nested one.
C8_Witness ==
    /\ calls = "getPodSpecPath"
    /\ KindOf(item) = "CronJob"
    /\ podSpecPath = <<"spec", "template", "spec">>

-----------------------------------------------------------------------------
\* C9: for a document of a template-wrapping kind both extractors read the
\* scheduling fields only under spec.template.spec: the tolerations reported
\* are those declared there (absent when declared only at the top-level
\* spec), and nothing else under the top-level spec changes the result.
C9_TemplateNesting ==
    KindOf(item) \in TemplateWrappingKinds =>
        /\ calls = "extractSchedulingInfo" =>
              /\ SnapshotTolerations(outputItem.Scheduling) =
                    ReportedSequence(ValueAt(item,
                        <<"spec", "template", "spec", "tolerations">>))
              /\ outputItem.Scheduling = extractSchedulingInfo(OnlyTemplate(item))
        /\ calls = "extractSchedulingSubcommand" =>
              /\ subCommand = "tolerations" =>
                    outputItem.Tolerations =
                        ReportedSequence(ValueAt(item,
                            <<"spec", "template", "spec", "tolerations">>))
              /\ outputItem = extractSchedulingSubcommand(
                                  OnlyTemplate(item), FreshOutputItem, subCommand)

\* C9 witness: a Deployment with tolerations [Y] at spec.tolerations and [X]
\* at spec.template.spec.tolerations gave [X] as the snapshot's tolerations.
C9_Witness ==
    /\ calls = "extractSchedulingInfo"
    /\ KindOf(item) = "Deployment"
    /\ ValueAt(item, <<"spec", "tolerations">>) = VSlice(<<TolerationY>>)
    /\ ValueAt(item, <<"spec", "template", "spec", "tolerations">>) =
          VSlice(<<TolerationX>>)
    /\ SnapshotTolerations(outputItem.Scheduling) = VSlice(<<TolerationX>>)

-----------------------------------------------------------------------------
\* the key is declared at the spec root with an empty value of its own type
DeclaredEmpty(doc, k) ==
    /\ Declares(doc, getPodSpecPath(doc), k)
    /\ LET v == ValueAt(doc, Append(getPodSpecPath(doc), k)) IN
       \/ k \in {"nodeSelector", "affinity"} /\ v = VMap(EmptyMap)
       \/ k \in {"tolerations", "topologySpreadConstraints"} /\ v = VSlice(<<>>)
       \/ k \in StringKeys /\ v = VString("")

\* the snapshot has no value for the key's field
FieldAbsent(scheduling, k) ==
    \/ scheduling.IsNil
    \/ CASE k = "nodeSelector" -> scheduling.NodeSelector = VNil
         [] k = "affinity" -> scheduling.Affinity = VNil
         [] k = "tolerations" -> scheduling.Tolerations = VNil
         [] k = "topologySpreadConstraints" ->
                scheduling.TopologySpreadConstraints = VNil
         [] k = "nodeName" -> scheduling.NodeName = ""
         [] k = "schedulerName" -> scheduling.SchedulerName = ""
         [] k = "priorityClassName" -> scheduling.PriorityClassName = ""
         [] k = "preemptionPolicy" -> scheduling.PreemptionPolicy = ""
         [] k = "runtimeClassName" -> scheduling.RuntimeClassName = ""

EmptiableKeys ==
    {"nodeSelector", "affinity", "tolerations", "topologySpreadConstraints"}
    \cup StringKeys

\* C10: in extractSchedulingInfo a key declared with an empty value
\* (nodeSelector = {}, affinity = {}, tolerations = [], topologySpread-
\* Constraints = [], a string field = "") gives the result of the same
\* document without the key, and the key's snapshot field is absent.
C10_EmptyIsAbsent ==
    calls = "extractSchedulingInfo" =>
        \A k \in EmptiableKeys :
            DeclaredEmpty(item, k) =>
                /\ outputItem.Scheduling =
                      extractSchedulingInfo(WithoutKey(item, getPodSpecPath(item), k))
                /\ FieldAbsent(outputItem.Scheduling, k)

\* C10 witness: nodeSelector = {} in a pod spec that sets other keys gave a
\* snapshot without a nodeSelector.
C10_Witness ==
    /\ calls = "extractSchedulingInfo"
    /\ DeclaredEmpty(item, "nodeSelector")
    /\ ~outputItem.Scheduling.IsNil
    /\ outputItem.Scheduling.NodeSelector = VNil
    /\ outputItem.Scheduling.NodeName = "node-1"

-----------------------------------------------------------------------------
\* the scheduling keys declared in the mapping at the document's spec root
RootKeys(doc) ==
    LET root == ValueAt(doc, getPodSpecPath(doc)) IN
    IF IsMap(root) THEN DOMAIN root.map \cap SpecKeys ELSE {}

\* the value of key k at the document's spec root
RootValue(doc, k) == ValueAt(doc, Append(getPodSpecPath(doc), k))

\* the document has a mapping at its spec root
HasSpecRoot(doc) == IsMap(ValueAt(doc, getPodSpecPath(doc)))

\* the fields of a snapshot that carry a value
PresentFields(scheduling) ==
    {f \in {"NodeSelector", "Affinity", "ResourceRequests", "ResourceLimits",
            "Priority"} : ~IsNil(scheduling[f])}
    \cup {f \in {"Tolerations", "TopologySpreadConstraints"} :
            IsSlice(scheduling[f]) /\ Len(scheduling[f].slice) > 0}
    \cup {f \in {"NodeName", "SchedulerName", "PriorityClassName",
                 "PreemptionPolicy", "RuntimeClassName"} : scheduling[f] # ""}
    \cup {f \in {"HostNetwork", "HostPID", "HostIPC"} : scheduling[f] = TRUE}

\* C11: extractSchedulingInfo returns no snapshot (nil) for every document
\* that declares none of the scheduling keys at its spec root, and every
\* snapshot it returns has at least one field that is present (a host flag
\* counts as present when it is true).
C11_SnapshotCollapse ==
    calls = "extractSchedulingInfo" =>
        /\ RootKeys(item) = {} => outputItem.Scheduling.IsNil
        /\ ~outputItem.Scheduling.IsNil =>
                PresentFields(outputItem.Scheduling) # {}

\* C11 witness: a document whose spec root is a mapping without any
\* scheduling key gave no snapshot.
C11_Witness ==
    /\ calls = "extractSchedulingInfo"
    /\ HasSpecRoot(item)
    /\ RootKeys(item) = {}
    /\ outputItem.Scheduling.IsNil

-----------------------------------------------------------------------------
\* the spec root's only scheduling key is priority, and it is the integer 0
OnlyPriorityZero(doc) ==
    /\ RootKeys(doc) = {"priority"}
    /\ RootValue(doc, "priority") = VInt64(0, 0)

\* C12: a priority key that holds an integer makes the snapshot's priority
\* present whatever the integer; a document whose only scheduling key is
\* priority = 0 gives a snapshot whose single present field is priority,
\* with value 0, while the same document without the key gives no snapshot.
C12_PriorityZero ==
    calls = "extractSchedulingInfo" =>
        /\ ("priority" \in RootKeys(item) /\ IsInt64(RootValue(item, "priority"))) =>
               /\ ~outputItem.Scheduling.IsNil
               /\ "int32" \in DOMAIN outputItem.Scheduling.Priority
        /\ OnlyPriorityZero(item) =>
               /\ ~outputItem.Scheduling.IsNil
               /\ outputItem.Scheduling.Priority = [int32 |-> <<0, 0>>]
               /\ PresentFields(outputItem.Scheduling) = {"Priority"}
               /\ extractSchedulingInfo(
                      WithoutKey(item, getPodSpecPath(item), "priority")).IsNil

\* C12 witness: a document whose only scheduling key is priority = 0 gave a
\* snapshot with priority 0.
C12_Witness ==
    /\ calls = "extractSchedulingInfo"
    /\ OnlyPriorityZero(item)
    /\ ~outputItem.Scheduling.IsNil
    /\ outputItem.Scheduling.Priority = [int32 |-> <<0, 0>>]

-----------------------------------------------------------------------------
(* The pod specs the container loops are run on, and their specification:  *)
(* Init draws the containers, the actions are those of the extractors.     *)

ContainerDb ==
    VMap([name |-> VString("db"),
          resources |->
            VMap([requests |-> VMap([cpu |-> VString("3"), memory |-> VString("1Gi")]),
                  limits |-> VMap([memory |-> VString("2Gi")])])])
\* quantities written as numbers
ContainerNumeric ==
    VMap([name |-> VString("numeric"),
          resources |-> VMap([requests |-> VMap([cpu |-> VInt64(0, 1)])])])
\* resources that is not a mapping
ContainerOddResources ==
    VMap([name |-> VString("odd"), resources |-> VString("none")])

ContainerPool ==
    {ContainerApp, ContainerSidecar, ContainerDb, ContainerBare,
     ContainerNumeric, ContainerOddResources, VString("app")}

ContainerSeqs == SeqsUpTo(ContainerPool, MaxContainers)

ContainerDocuments ==
    {Document("Pod", Placed([containers |-> VSlice(cs)], "direct")) :
        cs \in ContainerSeqs}
    \cup
    {Document("Deployment",
              Placed([containers |-> VSlice(cs), nodeName |-> VString("node-1")],
                     "nestedUnderDecoy")) : cs \in ContainerSeqs}

InitContainers ==
    /\ calls = "none"
    /\ clientErr = FALSE /\ discErr = FALSE /\ listsNil = TRUE
    /\ apiResourceLists = <<>> /\ resourceType = s_empty /\ resolved = NoResult
    /\ item \in ContainerDocuments
    /\ subCommand = "" /\ podSpecPath = <<>>
    /\ outputItem = FreshOutputItem
    /\ NoRetrieval
    /\ NoMain

SpecContainers == InitContainers /\ [][NextExtract]_vars

-----------------------------------------------------------------------------
(* What the container claims speak of *)

\* the containers at the document's spec root; <<>> when there is no sequence
ContainersOf(doc) ==
    IF IsSlice(RootValue(doc, "containers"))
    THEN RootValue(doc, "containers").slice ELSE <<>>

\* the requests (limits) mapping a container entry declares; empty when the
\* entry, its resources or the mapping itself is not a mapping
DeclaredBy(container, which) ==
    LET resources == ValueAt(container, <<"resources">>)
        quantities == ValueAt(container, <<"resources", which>>)
    IN IF IsMap(container) /\ IsMap(resources) /\ IsMap(quantities)
       THEN quantities.map ELSE EmptyMap

DeclaredKeys(containers, which) ==
    UNION {DOMAIN DeclaredBy(containers[i], which) : i \in 1..Len(containers)}

\* every quantity the containers declare is a string
StringValued(containers, which) ==
    \A i \in 1..Len(containers) :
        \A k \in DOMAIN DeclaredBy(containers[i], which) :
            IsString(DeclaredBy(containers[i], which)[k])

\* the values declared for key k, in container order
ValuesFor(containers, which, k) ==
    LET declaring == SelectSeq(containers,
                        LAMBDA c : k \in DOMAIN DeclaredBy(c, which))
    IN [n \in 1..Len(declaring) |-> DeclaredBy(declaring[n], which)[k].string]

RECURSIVE CommaJoin(_)
CommaJoin(strs) ==
    IF Len(strs) = 0 THEN ""
    ELSE IF Len(strs) = 1 THEN strs[1]
    ELSE strs[1] \o "," \o CommaJoin(Tail(strs))

\* the merged mapping as the claim describes it; absent when no key is declared
CommaJoined(containers, which) ==
    IF DeclaredKeys(containers, which) = {} THEN VNil
    ELSE VMap([k \in DeclaredKeys(containers, which) |->
                  VString(CommaJoin(ValuesFor(containers, which, k)))])

\* a field of the snapshot; VNil when there is no snapshot
SnapshotField(scheduling, f) ==
    IF scheduling.IsNil THEN VNil ELSE scheduling[f]

-----------------------------------------------------------------------------
\* every container entry is a mapping with a string name
NamedContainers(containers) ==
    \A i \in 1..Len(containers) :
        IsMap(containers[i]) /\ IsString(ValueAt(containers[i], <<"name">>))

\* the entries of the "resources" result: those of a sequence, a single
\* mapping counting as one entry
ResourceEntries(resources) ==
    IF IsSlice(resources) THEN resources.slice
    ELSE IF IsMap(resources) THEN <<resources>>
    ELSE <<>>

\* the entry carries the container's name and the container's own requests
\* and limits, each left out when the container declares none
EntryCarries(entry, container) ==
    /\ IsMap(entry)
    /\ ValueAt(entry, <<"name">>) = ValueAt(container, <<"name">>)
    /\ \A which \in {"requests", "limits"} :
          IF DOMAIN DeclaredBy(container, which) = {}
          THEN which \notin DOMAIN entry.map
          ELSE ValueAt(entry, <<which>>) = VMap(DeclaredBy(container, which))

\* C14: the "resources" subcommand gives one entry per container, in
\* container order, each carrying that container's name and its own requests
\* and limits; no value of one container is merged into or overwritten by
\* another's.
C14_PerContainerResources ==
    (/\ calls = "extractSchedulingSubcommand" /\ subCommand = "resources"
     /\ NamedContainers(ContainersOf(item))) =>
        LET entries == ResourceEntries(outputItem.Resources) IN
        /\ Len(entries) = Len(ContainersOf(item))
        /\ \A i \in 1..Len(entries) :
              EntryCarries(entries[i], ContainersOf(item)[i])

-----------------------------------------------------------------------------
\* the mapping a bundle field of the output item holds; empty when unset
BundleOf(val) == IF IsMap(val) THEN val.map ELSE EmptyMap

\* the key is declared at the spec root with a non-empty string
DeclaredNonEmptyString(doc, k) ==
    /\ k \in RootKeys(doc)
    /\ IsString(RootValue(doc, k))
    /\ RootValue(doc, k) # VString("")

\* C15: after the "runtime" subcommand each of hostNetwork, hostPID and
\* hostIPC is in the runtime mapping exactly when its key holds a boolean at
\* the spec root, with that boolean as its value, false included; a document
\* whose only runtime key is hostNetwork = false gives {hostNetwork: false},
\* while the full snapshot of that document is nil.
C15_RuntimePresence ==
    (calls = "extractSchedulingSubcommand" /\ subCommand = "runtime") =>
        /\ \A k \in BoolKeys :
              /\ k \in DOMAIN BundleOf(outputItem.Runtime) <=>
                    (k \in RootKeys(item) /\ IsBool(RootValue(item, k)))
              /\ k \in DOMAIN BundleOf(outputItem.Runtime) =>
                    BundleOf(outputItem.Runtime)[k] = RootValue(item, k)
        /\ (/\ RootKeys(item) = {"hostNetwork"}
            /\ RootValue(item, "hostNetwork") = VBool(FALSE)) =>
              /\ outputItem.Runtime = VMap([hostNetwork |-> VBool(FALSE)])
              /\ extractSchedulingInfo(item).IsNil

\* C15 witness: hostNetwork = false, the only scheduling key of the document,
\* gave the runtime mapping {hostNetwork: false}.
C15_Witness ==
    /\ calls = "extractSchedulingSubcommand" /\ subCommand = "runtime"
    /\ RootKeys(item) = {"hostNetwork"}
    /\ RootValue(item, "hostNetwork") = VBool(FALSE)
    /\ outputItem.Runtime = VMap([hostNetwork |-> VBool(FALSE)])

-----------------------------------------------------------------------------
\* C16: after the "priority" subcommand the priority mapping holds
\* priorityClassName and preemptionPolicy exactly when the key holds a
\* non-empty string, priority exactly when the key holds an integer (0
\* included), each with the document's value and independently of the other
\* two, and no other key; the field is unset when none of the three is there.
C16_PriorityBundle ==
    (calls = "extractSchedulingSubcommand" /\ subCommand = "priority") =>
        LET bundle == BundleOf(outputItem.Priority) IN
        /\ DOMAIN bundle \subseteq
              {"priorityClassName", "priority", "preemptionPolicy"}
        /\ \A k \in {"priorityClassName", "preemptionPolicy"} :
              /\ k \in DOMAIN bundle <=> DeclaredNonEmptyString(item, k)
              /\ k \in DOMAIN bundle => bundle[k] = RootValue(item, k)
        /\ "priority" \in DOMAIN bundle <=>
              ("priority" \in RootKeys(item) /\ IsInt64(RootValue(item, "priority")))
        /\ "priority" \in DOMAIN bundle =>
              bundle["priority"] = RootValue(item, "priority")
        /\ IsNil(outputItem.Priority) <=> DOMAIN bundle = {}

\* C16 witness: priority = 0, the only scheduling key of the document, gave
\* a mapping with priority = 0 and nothing else.
C16_Witness ==
    /\ calls = "extractSchedulingSubcommand" /\ subCommand = "priority"
    /\ RootKeys(item) = {"priority"}
    /\ RootValue(item, "priority") = VInt64(0, 0)
    /\ outputItem.Priority = VMap([priority |-> VInt64(0, 0)])

-----------------------------------------------------------------------------
\* the output item's field each subcommand fills, and the snapshot field of
\* the same name for the four that have one
GroupField(subCmd) ==
    CASE subCmd = "tolerations" -> "Tolerations"
      [] subCmd = "affinity" -> "Affinity"
      [] subCmd = "nodeselector" -> "NodeSelector"
      [] subCmd = "resources" -> "Resources"
      [] subCmd = "topology" -> "TopologySpreadConstraints"
      [] subCmd = "priority" -> "Priority"
      [] subCmd = "runtime" -> "Runtime"
      [] OTHER -> "none"

SharedSubCommands == {"tolerations", "affinity", "nodeselector", "topology"}

\* C17: for tolerations, affinity, nodeSelector and topologySpreadConstraints
\* the value the subcommand sets is the snapshot's field of the same
\* document, and the field is left unset exactly when the snapshot is nil or
\* has the field absent.
C17_SamePresenceRule ==
    (calls = "extractSchedulingSubcommand" /\ subCommand \in SharedSubCommands) =>
        outputItem[GroupField(subCommand)] =
            SnapshotField(extractSchedulingInfo(item), GroupField(subCommand))

\* C17 witness: the "nodeselector" subcommand set the node selector that the
\* snapshot of the same document holds.
C17_Witness ==
    /\ calls = "extractSchedulingSubcommand" /\ subCommand = "nodeselector"
    /\ outputItem.NodeSelector = [stringmap |-> [disk |-> "ssd"]]
    /\ ~extractSchedulingInfo(item).IsNil
    /\ extractSchedulingInfo(item).NodeSelector = outputItem.NodeSelector

-----------------------------------------------------------------------------
SevenSubCommands ==
    {"tolerations", "affinity", "nodeselector", "resources", "topology",
     "priority", "runtime"}

GroupFields ==
    {"Tolerations", "Affinity", "NodeSelector", "Resources",
     "TopologySpreadConstraints", "Priority", "Runtime"}

\* an output item every field of which already holds something
MarkedOutputItem ==
    [Name |-> "obj", Scheduling |-> NilSchedulingInfo,
     Tolerations |-> VString("kept"), Affinity |-> VString("kept"),
     NodeSelector |-> VString("kept"), Resources |-> VString("kept"),
     TopologySpreadConstraints |-> VString("kept"),
     Priority |-> VString("kept"), Runtime |-> VString("kept")]

\* a collection with at least one element
NonEmptyCollection(val) ==
    \/ IsMap(val) /\ DOMAIN val.map # {}
    \/ IsSlice(val) /\ Len(val.slice) > 0
    \/ "stringmap" \in DOMAIN val /\ DOMAIN val.stringmap # {}

\* out differs from before at most in field f, which is as before or holds a
\* non-empty collection
ChangedOnly(before, out, f) ==
    /\ DOMAIN out = DOMAIN before
    /\ \A g \in DOMAIN before \ {f} : out[g] = before[g]
    /\ f \in DOMAIN before => (out[f] = before[f] \/ NonEmptyCollection(out[f]))

\* C18: extractSchedulingSubcommand changes at most the output item's field
\* that belongs to the requested group, sets it only to a non-empty value,
\* and leaves the output item as it was for a name outside the seven groups;
\* this holds for a fresh output item and for one whose fields are all set.
C18_OnlyRequestedGroup ==
    calls = "extractSchedulingSubcommand" =>
        /\ ChangedOnly(FreshOutputItem, outputItem, GroupField(subCommand))
        /\ ChangedOnly(MarkedOutputItem,
                       extractSchedulingSubcommand(item, MarkedOutputItem, subCommand),
                       GroupField(subCommand))
        /\ subCommand \notin SevenSubCommands =>
              /\ outputItem = FreshOutputItem
              /\ extractSchedulingSubcommand(item, MarkedOutputItem, subCommand) =
                    MarkedOutputItem

\* C18 witness: the "runtime" subcommand, on a document that declares node
\* selector, tolerations and priority as well, set the runtime field and no
\* other.
C18_Witness ==
    /\ calls = "extractSchedulingSubcommand" /\ subCommand = "runtime"
    /\ {"nodeSelector", "tolerations", "priority"} \subseteq RootKeys(item)
    /\ NonEmptyCollection(outputItem.Runtime)
    /\ \A g \in GroupFields \ {"Runtime"} : IsNil(outputItem[g])

-----------------------------------------------------------------------------
\* the value is of the type the extractors read key k as
WellTyped(k, val) ==
    CASE k = "nodeSelector" ->
            IsMap(val) /\ \A x \in DOMAIN val.map : IsString(val.map[x])
      [] k = "affinity" -> IsMap(val)
      [] k \in {"tolerations", "topologySpreadConstraints", "containers"} ->
            IsSlice(val)
      [] k = "priority" -> IsInt64(val)
      [] k \in StringKeys -> IsString(val)
      [] k \in BoolKeys -> IsBool(val)

\* the key is declared at the spec root with a value of another type
Malformed(doc, k) == k \in RootKeys(doc) /\ ~WellTyped(k, RootValue(doc, k))

\* the document with value v for key k in the mapping at the path
RECURSIVE WithKey(_, _, _, _)
WithKey(val, path, k, v) ==
    IF Len(path) = 0 THEN VMap(Put(val.map, k, v))
    ELSE VMap([val.map EXCEPT ![Head(path)] = WithKey(@, Tail(path), k, v)])

\* the document with the container entries that are not mappings taken out
WithoutOddEntries(doc) ==
    WithKey(doc, getPodSpecPath(doc), "containers",
            VSlice(SelectSeq(ContainersOf(doc), LAMBDA c : IsMap(c))))

HasOddEntry(doc) ==
    \E i \in 1..Len(ContainersOf(doc)) : ~IsMap(ContainersOf(doc)[i])

\* C19: both extractors return for every document; a key whose value has the
\* wrong type changes nothing but its own field: the result is the one of the
\* same document without the key. A container entry that is not a mapping is
\* passed over, and a spec root that is missing or not a mapping gives no
\* snapshot and an untouched output item.
C19_MalformedIsAbsent ==
    /\ calls = "extractSchedulingInfo" =>
          /\ \A k \in SpecKeys :
                Malformed(item, k) =>
                    outputItem.Scheduling =
                        extractSchedulingInfo(
                            WithoutKey(item, getPodSpecPath(item), k))
          /\ HasOddEntry(item) =>
                outputItem.Scheduling = extractSchedulingInfo(WithoutOddEntries(item))
          /\ ~HasSpecRoot(item) => outputItem.Scheduling.IsNil
    /\ calls = "extractSchedulingSubcommand" =>
          /\ \A k \in SpecKeys :
                Malformed(item, k) =>
                    outputItem =
                        extractSchedulingSubcommand(
                            WithoutKey(item, getPodSpecPath(item), k),
                            FreshOutputItem, subCommand)
          /\ HasOddEntry(item) =>
                outputItem = extractSchedulingSubcommand(
                                 WithoutOddEntries(item), FreshOutputItem, subCommand)
          /\ ~HasSpecRoot(item) => outputItem = FreshOutputItem

\* C19 witness: a node selector with an entry that is not a string, in a pod
\* spec that sets the other keys, gave a snapshot without node selector and
\* with the node name and the tolerations of the document.
C19_Witness ==
    /\ calls = "extractSchedulingInfo"
    /\ Malformed(item, "nodeSelector")
    /\ IsMap(RootValue(item, "nodeSelector"))
    /\ \E x \in DOMAIN RootValue(item, "nodeSelector").map :
          IsString(RootValue(item, "nodeSelector").map[x])
    /\ ~outputItem.Scheduling.IsNil
    /\ IsNil(outputItem.Scheduling.NodeSelector)
    /\ outputItem.Scheduling.NodeName = "node-1"
    /\ outputItem.Scheduling.Tolerations = RootValue(item, "tolerations")

-----------------------------------------------------------------------------
(* What the retrieval claims speak of *)

\* the positions of the given names whose Get the cluster answers with an error
FailingPositions ==
    {i \in 1..Len(resourceNames) : objects[resourceNames[i]] = "error"}

FirstFailing ==
    CHOOSE i \in FailingPositions : \A j \in FailingPositions : i <= j

\* the names the Get requests were issued for, in the order of the requests
RequestedNames == [i \in 1..Len(apiCalls) |-> apiCalls[i].name]

\* C20: with names given, getResources issues Gets one at a time in the
\* order of the names. When the Get of the i-th name fails, the requests
\* issued are exactly the Gets of the first i names, the error names that
\* resource and no documents are returned; when none fails there is one Get
\* and one returned document per name, in name order.
C20_FailFast ==
    (calls = "getResources" /\ Len(resourceNames) > 0) =>
        /\ \A i \in 1..Len(apiCalls) : apiCalls[i].verb = "Get"
        /\ IF FailingPositions = {}
           THEN /\ RequestedNames = resourceNames
                /\ retrieved.err = ErrNone
                /\ ~retrieved.items.IsNil
                /\ [i \in 1..Len(retrieved.items.Items) |->
                        retrieved.items.Items[i].Name] = resourceNames
           ELSE /\ RequestedNames = SubSeq(resourceNames, 1, FirstFailing)
                /\ retrieved.err = "error getting " \o resourceNames[FirstFailing]
                /\ retrieved.items.IsNil
                /\ retrieved.items.Items = <<>>

\* C20 witness: of three names the second failed: two Gets were issued, the
\* third name was never asked for, and the first document was not returned.
C20_Witness ==
    /\ calls = "getResources"
    /\ resourceNames = <<"a", "b", "c">>
    /\ objects["a"] # "error" /\ objects["b"] = "error" /\ objects["c"] # "error"
    /\ RequestedNames = <<"a", "b">>
    /\ retrieved.items.IsNil
    /\ retrieved.err = "error getting b"

-----------------------------------------------------------------------------
\* the numeric priority the "priority" subcommand reports for the document
SubcommandPriorityValue(doc) ==
    BundleOf(extractSchedulingSubcommand(doc, FreshOutputItem, "priority").Priority)

\* C25: for every document whose priority is an integer, the priority of the
\* full snapshot is the number the "priority" subcommand reports, and it is
\* the document's integer, for every 64-bit value.
C25_SamePriorityValue ==
    (/\ calls = "extractSchedulingInfo"
     /\ "priority" \in RootKeys(item)
     /\ IsInt64(RootValue(item, "priority"))) =>
        /\ ~outputItem.Scheduling.IsNil
        /\ "int32" \in DOMAIN outputItem.Scheduling.Priority
        /\ outputItem.Scheduling.Priority.int32 = RootValue(item, "priority").int64
        /\ outputItem.Scheduling.Priority.int32 =
              SubcommandPriorityValue(item)["priority"].int64

-----------------------------------------------------------------------------
\* the spec root's scheduling keys are host flags only, each a boolean
OnlyHostFlags(doc) ==
    /\ RootKeys(doc) # {}
    /\ RootKeys(doc) \subseteq BoolKeys
    /\ \A k \in RootKeys(doc) : IsBool(RootValue(doc, k))

HostFlagField(k) ==
    CASE k = "hostNetwork" -> "HostNetwork"
      [] k = "hostPID" -> "HostPID"
      [] k = "hostIPC" -> "HostIPC"

\* C26: in extractSchedulingInfo a document whose only scheduling keys are
\* host flags gives no snapshot when all of them are false, as the document
\* without them does, and a snapshot whose true flags are exactly the keys
\* set to true when one of them is true.
C26_HostFlagsByValue ==
    (calls = "extractSchedulingInfo" /\ OnlyHostFlags(item)) =>
        IF \A k \in RootKeys(item) : RootValue(item, k) = VBool(FALSE)
        THEN outputItem.Scheduling.IsNil
        ELSE /\ ~outputItem.Scheduling.IsNil
             /\ \A k \in BoolKeys :
                   outputItem.Scheduling[HostFlagField(k)] =
                       (k \in RootKeys(item) /\ RootValue(item, k) = VBool(TRUE))

\* C26 witness: hostNetwork, hostPID and hostIPC are the only keys, hostPID
\* alone is true, and the snapshot has hostPID true and hostNetwork false.
C26_Witness ==
    /\ calls = "extractSchedulingInfo"
    /\ RootKeys(item) = BoolKeys
    /\ RootValue(item, "hostPID") = VBool(TRUE)
    /\ RootValue(item, "hostNetwork") = VBool(FALSE)
    /\ RootValue(item, "hostIPC") = VBool(FALSE)
    /\ ~outputItem.Scheduling.IsNil
    /\ outputItem.Scheduling.HostPID = TRUE
    /\ outputItem.Scheduling.HostNetwork = FALSE

-----------------------------------------------------------------------------
\* the values declared for key k, in container order, as they stand
RawValuesFor(containers, which, k) ==
    LET declaring == SelectSeq(containers,
                        LAMBDA c : k \in DOMAIN DeclaredBy(c, which))
    IN [n \in 1..Len(declaring) |-> DeclaredBy(declaring[n], which)[k]]

\* the strings among the values, in order
StringsAmong(values) ==
    LET strs == SelectSeq(values, LAMBDA v : IsString(v))
    IN [n \in 1..Len(strs) |-> strs[n].string]

\* what the merge leaves for a key: a first value that is not a string stays
\* and every later one is dropped; a first value that is a string is joined
\* with the later strings, the later values that are not strings are dropped
MergedValue(values) ==
    IF IsString(values[1]) THEN VString(CommaJoin(StringsAmong(values)))
    ELSE values[1]

MergedWithDrops(containers, which) ==
    IF DeclaredKeys(containers, which) = {} THEN VNil
    ELSE VMap([k \in DeclaredKeys(containers, which) |->
                  MergedValue(RawValuesFor(containers, which, k))])

\* a key is declared by two containers and one of the two values met at the
\* second one is not a string
HasUnjoinable(containers, which) ==
    \E k \in DeclaredKeys(containers, which) :
        /\ Len(RawValuesFor(containers, which, k)) > 1
        /\ \E n \in 1..Len(RawValuesFor(containers, which, k)) :
              ~IsString(RawValuesFor(containers, which, k)[n])

-----------------------------------------------------------------------------
\* the matching entries that stand in a list whose group-version string does
\* not parse
UnparsableCandidates(lists, input) ==
    Candidates(lists, input) \ ParsableCandidates(lists, input)

\* C28: a matching entry whose list has a group-version string that does not
\* parse is neither returned nor an error: the result is the coordinate of
\* the first matching entry of a list that parses, and NotFound when there
\* is none.
C28_UnparsableIsSkipped ==
    (Scanned /\ UnparsableCandidates(apiResourceLists, resourceType) # {}) =>
        /\ resolved.err \in {ErrNone, ErrNotFound}
        /\ resolved.err = ErrNone =>
              \E p \in ParsableCandidates(apiResourceLists, resourceType) :
                  /\ resolved = CoordinateOf(apiResourceLists, p)
                  /\ \A q \in ParsableCandidates(apiResourceLists, resourceType) :
                        q = p \/ Precedes(p, q)
        /\ resolved.err = ErrNotFound <=>
              ParsableCandidates(apiResourceLists, resourceType) = {}
        /\ \A p \in UnparsableCandidates(apiResourceLists, resourceType) :
              resolved.gvr.Version # s_empty =>
                  \/ resolved.gvr.Group # s_empty
                  \/ ~ContainsSlash(resolved.gvr.Version)

\* C28 witness: the first matching entry stands in the list "a/b/c", a later
\* one in a list that parses, and the later one was returned.
C28_Witness ==
    /\ Scanned
    /\ \E p \in UnparsableCandidates(apiResourceLists, resourceType) :
       \E q \in ParsableCandidates(apiResourceLists, resourceType) :
          /\ Precedes(p, q)
          /\ p = First(Candidates(apiResourceLists, resourceType))
          /\ resolved = CoordinateOf(apiResourceLists, q)

-----------------------------------------------------------------------------
\* the requests of the last call that are Gets, and those that are Lists
GetsIssued == SelectSeq(apiCalls, LAMBDA c : c.verb = "Get")
ListsIssued == SelectSeq(apiCalls, LAMBDA c : c.verb = "List")

\* C29: with a name given getResources issues Gets only, and the selector
\* plays no part: no request carries it and a named object that does not
\* match it is returned all the same. With no name given it issues exactly
\* one List and no Get, and the List carries the selector exactly when one
\* was supplied.
C29_NamesBypassSelector ==
    calls = "getResources" =>
        IF Len(resourceNames) > 0
        THEN /\ ListsIssued = <<>>
             /\ Len(GetsIssued) > 0
             /\ \A i \in 1..Len(apiCalls) : apiCalls[i].labelSelector = ""
             /\ retrieved.err = ErrNone =>
                   retrieved.items.Items =
                       [i \in 1..Len(resourceNames) |->
                           Object(resourceNames[i], objects[resourceNames[i]])]
        ELSE /\ GetsIssued = <<>>
             /\ Len(ListsIssued) = 1
             /\ ListsIssued[1].labelSelector =
                   (IF labelSelector.IsNil THEN "" ELSE labelSelector.String)

\* C29 witness: a selector was supplied, the named object does not match it,
\* and it was returned by a single Get.
C29_Witness ==
    /\ calls = "getResources"
    /\ ~labelSelector.IsNil
    /\ resourceNames = <<"a">>
    /\ objects["a"] = "plain"
    /\ Len(apiCalls) = 1 /\ apiCalls[1].verb = "Get"
    /\ retrieved.items = Items(<<Object("a", "plain")>>)

-----------------------------------------------------------------------------
(* main, from os.Args to getKubeconfig (main.go, lines 17-228)              *)
(* Arguments are character sequences, as the resource types are.            *)

t_labels      == <<"l","a","b","e","l","s">>
t_annotations == <<"a","n","n","o","t","a","t","i","o","n","s">>
t_owner       == <<"o","w","n","e","r">>
t_scheduling  == <<"s","c","h","e","d","u","l","i","n","g">>
t_completion  == <<"c","o","m","p","l","e","t","i","o","n">>
t_tolerations == <<"t","o","l","e","r","a","t","i","o","n","s">>
t_affinity    == <<"a","f","f","i","n","i","t","y">>
t_nodeselector == <<"n","o","d","e","s","e","l","e","c","t","o","r">>
t_resources   == <<"r","e","s","o","u","r","c","e","s">>
t_topology    == <<"t","o","p","o","l","o","g","y">>
t_priority    == <<"p","r","i","o","r","i","t","y">>
t_runtime     == <<"r","u","n","t","i","m","e">>
t_namespace   == <<"n","a","m","e","s","p","a","c","e">>
t_all_namespaces == <<"a","l","l","-","n","a","m","e","s","p","a","c","e","s">>
t_selector    == <<"s","e","l","e","c","t","o","r">>
t_output      == <<"o","u","t","p","u","t">>
t_color       == <<"c","o","l","o","r">>
t_help        == <<"h","e","l","p">>
t_json        == <<"j","s","o","n">>
t_yaml        == <<"y","a","m","l">>
t_table       == <<"t","a","b","l","e">>

\* lines 17-28
isSchedulingSubcommand(cmd) ==
    cmd \in {t_tolerations, t_affinity, t_nodeselector, t_resources,
             t_topology, t_priority, t_runtime}

\* lines 31-33
isHelpFlag(arg) ==
    arg \in {<<"-","h">>, <<"-","-">> \o t_help, <<"-">> \o t_help}

\* altered: only the first of the arguments is looked at
containsHelpFlag_FirstOnly(args) ==
    Len(args) > 0 /\ isHelpFlag(args[1])

\* lines 36-43
containsHelpFlag(args) ==
    \E i \in 1..Len(args) : isHelpFlag(args[i])

\* strings.HasPrefix
HasPrefix(s, prefix) ==
    /\ Len(s) >= Len(prefix)
    /\ \A i \in 1..Len(prefix) : s[i] = prefix[i]

\* s[from:], from being a 0-based Go index
SliceFrom(s, from) == SubSeq(s, from + 1, Len(s))

\* lines 49-53 and 56-59
stringFlags == {<<"-","o">>, <<"-","n">>, <<"-","l">>}
boolFlags   == {<<"-","A">>, <<"-","c">>}

\* lines 76-87: the short string flag the argument starts with and carries a
\* value for; the three flags differ in their second character, so the order
\* in which the map is ranged over does not matter
AttachedTo(arg) ==
    {f \in stringFlags : HasPrefix(arg, f) /\ Len(arg) > Len(f) /\ arg[Len(f) + 1] # "="}

\* lines 94-103
allBool(arg) == \A i \in 2..Len(arg) : <<"-", arg[i]>> \in boolFlags

\* lines 62-113: what one argument becomes
Expand(arg) ==
    IF ~HasPrefix(arg, <<"-">>) THEN <<arg>>
    ELSE IF HasPrefix(arg, <<"-","-">>) THEN <<arg>>
    ELSE IF AttachedTo(arg) # {}
         THEN LET f == CHOOSE x \in AttachedTo(arg) : TRUE
              IN <<f, SliceFrom(arg, Len(f))>>
    ELSE IF Len(arg) > 2 /\ allBool(arg)
         THEN [i \in 1..(Len(arg) - 1) |-> <<"-", arg[i + 1]>>]
    ELSE <<arg>>

\* lines 47-117
RECURSIVE preprocessArgs(_)
preprocessArgs(args) ==
    IF args = <<>> THEN <<>>
    ELSE Expand(Head(args)) \o preprocessArgs(Tail(args))

\* lines 203-212: the variable a flag name is bound to, "" when the name is
\* not defined
FlagVariable(name) ==
    CASE name \in {<<"n">>, t_namespace}      -> "namespace"
      [] name \in {<<"A">>, t_all_namespaces} -> "allNamespaces"
      [] name \in {<<"l">>, t_selector}       -> "selector"
      [] name \in {<<"o">>, t_output}         -> "outputFormat"
      [] name \in {<<"c">>, t_color}          -> "colorOutput"
      [] OTHER -> ""

IsBoolFlag(variable) == variable \in {"allNamespaces", "colorOutput"}

\* strconv.ParseBool, as the flag package uses it for -A=... and -c=...
TrueWords ==
    {<<"1">>, <<"t">>, <<"T">>, <<"t","r","u","e">>, <<"T","R","U","E">>,
     <<"T","r","u","e">>}
FalseWords ==
    {<<"0">>, <<"f">>, <<"F">>, <<"f","a","l","s","e">>, <<"F","A","L","S","E">>,
     <<"F","a","l","s","e">>}

\* the position of the first "=" after the first character of a flag name,
\* 0 when there is none
IndexEquals(name) ==
    IF \E i \in 2..Len(name) : name[i] = "="
    THEN CHOOSE i \in 2..Len(name) :
            name[i] = "=" /\ \A j \in 2..(i - 1) : name[j] # "="
    ELSE 0

\* flag.FlagSet.parseOne on the flags of lines 203-212: the flag set after
\* one step, the arguments left, and whether parsing goes on ("more"), has
\* ended ("done"), met an undefined -h or -help ("help"), or failed ("error")
parseOne(fs, args) ==
    IF args = <<>> THEN [fs |-> fs, args |-> args, status |-> "done"]
    ELSE
    LET s == Head(args) IN
    IF Len(s) < 2 \/ s[1] # "-" THEN [fs |-> fs, args |-> args, status |-> "done"]
    ELSE IF s = <<"-","-">> THEN [fs |-> fs, args |-> Tail(args), status |-> "done"]
    ELSE
    LET numMinuses == IF s[2] = "-" THEN 2 ELSE 1
        whole      == SliceFrom(s, numMinuses)
    IN
    IF whole = <<>> \/ whole[1] = "-" \/ whole[1] = "="
    THEN [fs |-> fs, args |-> args, status |-> "error"]
    ELSE
    LET eq       == IndexEquals(whole)
        hasValue == eq # 0
        name     == IF hasValue THEN SubSeq(whole, 1, eq - 1) ELSE whole
        value    == IF hasValue THEN SliceFrom(whole, eq) ELSE <<>>
        variable == FlagVariable(name)
        rest     == Tail(args)
    IN
    IF variable = ""
    THEN [fs |-> fs, args |-> rest,
          status |-> IF name \in {t_help, <<"h">>} THEN "help" ELSE "error"]
    ELSE IF IsBoolFlag(variable)
    THEN IF ~hasValue
         THEN [fs |-> [fs EXCEPT ![variable] = TRUE], args |-> rest, status |-> "more"]
         ELSE IF value \in TrueWords \cup FalseWords
         THEN [fs |-> [fs EXCEPT ![variable] = (value \in TrueWords)],
               args |-> rest, status |-> "more"]
         ELSE [fs |-> fs, args |-> rest, status |-> "error"]
    ELSE IF hasValue
         THEN [fs |-> [fs EXCEPT ![variable] = value], args |-> rest, status |-> "more"]
         ELSE IF rest # <<>>
         THEN [fs |-> [fs EXCEPT ![variable] = Head(rest)],
               args |-> Tail(rest), status |-> "more"]
         ELSE [fs |-> fs, args |-> rest, status |-> "error"]

\* line 219, fs.Parse(args): parseOne until it ends; fs.Args() is what is left
RECURSIVE Parse(_, _)
Parse(fs, args) ==
    LET one == parseOne(fs, args) IN
    IF one.status = "more" THEN Parse(one.fs, one.args)
    ELSE [fs |-> [one.fs EXCEPT !.Args = one.args], status |-> one.status]

\* what main writes to os.Stdout before it exits
Usage(fn, arg) == [fn |-> fn, arg |-> arg]

\* os.Args[k] and os.Args[k:], k being a 0-based Go index
OsArg(args, k) == args[k + 1]

\* what main has done when it stops or reaches the dynamic client
MainState(cmd, fs, mcalls, out, err, code) ==
    [command |-> cmd, flagSet |-> fs, mainCalls |-> mcalls,
     stdout |-> out, stderr |-> err, exitCode |-> code]

ExitWithUsage(cmd, usage) ==
    MainState(cmd, DefaultFlags, <<>>, <<usage>>, <<>>, 0)

\* completion.go, lines 341-360, with main's os.Exit(0) of line 132
handleCompletion(args) ==
    IF args = <<>> \/ args[1] \in {<<"-","h">>, <<"-","-">> \o t_help}
    THEN ExitWithUsage(NoCommand, Usage("printCompletionUsage", <<>>))
    ELSE IF args[1] \in {<<"b","a","s","h">>, <<"z","s","h">>, <<"f","i","s","h">>}
    THEN ExitWithUsage(NoCommand, Usage("completion script", args[1]))
    ELSE MainState(NoCommand, DefaultFlags, <<>>, <<>>,
                   <<"Error: unsupported shell">>, 1)

\* lines 196-228: the flags are parsed, then the kubeconfig is loaded
ParseAndConnect(args, cmd, kErr) ==
    LET parsed == Parse(DefaultFlags, preprocessArgs(SliceFrom(args, cmd.argsOffset)))
    IN CASE parsed.status = "help" ->
               MainState(cmd, parsed.fs, <<>>, <<>>, <<"flag usage">>, 0)
         [] parsed.status = "error" ->
               MainState(cmd, parsed.fs, <<>>, <<>>, <<"flag error", "flag usage">>, 2)
         [] OTHER ->
               IF kErr
               THEN MainState(cmd, parsed.fs, <<"getKubeconfig">>, <<>>,
                              <<"Error getting kubeconfig">>, 1)
               ELSE MainState(cmd, parsed.fs, <<"getKubeconfig">>, <<>>, <<>>, Running)

\* lines 139-170: the scheduling command
SchedulingCommand(args, kErr) ==
    IF Len(args) < 3 \/ isHelpFlag(OsArg(args, 2))
    THEN ExitWithUsage(NoCommand, Usage("printSchedulingUsage", <<>>))
    ELSE IF isSchedulingSubcommand(OsArg(args, 2))
    THEN IF Len(args) < 4 \/ isHelpFlag(OsArg(args, 3))
         THEN ExitWithUsage(NoCommand, Usage("printSchedulingUsage", OsArg(args, 2)))
         ELSE IF containsHelpFlag(SliceFrom(args, 4))
         THEN ExitWithUsage(NoCommand, Usage("printSchedulingUsage", OsArg(args, 2)))
         ELSE ParseAndConnect(args,
                  [cmdType |-> t_scheduling, subCommand |-> OsArg(args, 2),
                   resourceType |-> OsArg(args, 3), argsOffset |-> 4], kErr)
    ELSE IF containsHelpFlag(SliceFrom(args, 3))
         THEN ExitWithUsage(NoCommand, Usage("printSchedulingUsage", <<>>))
         ELSE ParseAndConnect(args,
                  [cmdType |-> t_scheduling, subCommand |-> <<>>,
                   resourceType |-> OsArg(args, 2), argsOffset |-> 3], kErr)

\* lines 171-193: labels, annotations, owner, and every other word
OtherCommand(args, kErr) ==
    IF OsArg(args, 1) \notin {t_labels, t_annotations, t_owner}
    THEN MainState(NoCommand, DefaultFlags, <<>>, <<Usage("printUsage", <<>>)>>,
                   <<"Error: command type">>, 1)
    ELSE IF Len(args) < 3 \/ isHelpFlag(OsArg(args, 2))
    THEN ExitWithUsage(NoCommand, Usage("printCommandUsage", OsArg(args, 1)))
    ELSE IF containsHelpFlag(SliceFrom(args, 3))
    THEN ExitWithUsage(NoCommand, Usage("printCommandUsage", OsArg(args, 1)))
    ELSE ParseAndConnect(args,
             [cmdType |-> OsArg(args, 1), subCommand |-> <<>>,
              resourceType |-> OsArg(args, 2), argsOffset |-> 3], kErr)

\* lines 119-228
main(args, kErr) ==
    IF Len(args) < 2 \/ isHelpFlag(OsArg(args, 1))
    THEN ExitWithUsage(NoCommand, Usage("printUsage", <<>>))
    ELSE IF OsArg(args, 1) = t_completion
    THEN handleCompletion(SliceFrom(args, 2))
    ELSE IF OsArg(args, 1) = t_scheduling
    THEN SchedulingCommand(args, kErr)
    ELSE OtherCommand(args, kErr)

-----------------------------------------------------------------------------
(* Specification of the command line: Init draws os.Args and whether the   *)
(* kubeconfig loads, Main is one run of the program up to getKubeconfig.   *)

t_prog == <<"k","u","b","e","c","t","l","-","g","e","t","i","n","f","o">>
t_web  == <<"w","e","b">>
t_prod == <<"p","r","o","d">>

\* os.Args[1:] up to the resource type
Heads ==
    { <<>>,
      <<t_completion>>,
      <<s_nodes>>,
      <<t_labels>>, <<t_annotations>>, <<t_owner>>, <<t_scheduling>>,
      <<t_scheduling, t_tolerations>>,
      <<t_labels, s_pods>>, <<t_owner, s_pods>>,
      <<t_scheduling, s_pods>>,
      <<t_scheduling, t_tolerations, s_pods>> }

\* the arguments typed after it
Words ==
    { t_web, <<"-","n">>, t_prod, <<"-","o">> \o t_yaml, <<"-","A","c">>,
      <<"-","h">>, <<"-","-">> \o t_help, <<"-">> \o t_help, <<"-","-">> }

CommandLines ==
    {<<t_prog>> \o head \o rest : head \in Heads, rest \in SeqsUpTo(Words, MaxArgs)}

\* the other layers are not run
NoLayerCall ==
    /\ clientErr = FALSE /\ discErr = FALSE /\ listsNil = TRUE
    /\ apiResourceLists = <<>> /\ resourceType = s_empty /\ resolved = NoResult
    /\ item = VMap(EmptyMap) /\ subCommand = "" /\ podSpecPath = <<>>
    /\ outputItem = FreshOutputItem

InitArgs ==
    /\ calls = "none"
    /\ NoLayerCall
    /\ NoRetrieval
    /\ osArgs \in CommandLines
    /\ kubeconfigErr \in BOOLEAN
    /\ command = NoCommand /\ flagSet = DefaultFlags /\ mainCalls = <<>>
    /\ cmdType = "" /\ outputFormat = <<>> /\ colorOutput = FALSE
    /\ items = <<>> /\ output = NoOutput
    /\ stdout = <<>> /\ stderr = <<>> /\ exitCode = Running

Main ==
    /\ calls' = "main"
    /\ LET m == main(osArgs, kubeconfigErr)
       IN /\ command' = m.command
          /\ flagSet' = m.flagSet
          /\ mainCalls' = m.mainCalls
          /\ stdout' = m.stdout
          /\ stderr' = m.stderr
          /\ exitCode' = m.exitCode
    /\ UNCHANGED <<osArgs, kubeconfigErr, cmdType, outputFormat, colorOutput,
                   items, output>>
    /\ UNCHANGED resolveVars
    /\ UNCHANGED extractVars
    /\ UNCHANGED retrieveVars

NextArgs == Main

SpecArgs == InitArgs /\ [][NextArgs]_vars

-----------------------------------------------------------------------------
\* the command typed is one of the four that read the cluster
FourCommands == {t_labels, t_annotations, t_owner, t_scheduling}

TypedCommand == Len(osArgs) >= 2 /\ OsArg(osArgs, 1) \in FourCommands

\* the scheduling subcommand typed, <<>> when there is none
TypedSubCommand ==
    IF /\ Len(osArgs) >= 3
       /\ OsArg(osArgs, 1) = t_scheduling
       /\ OsArg(osArgs, 2) \in {t_tolerations, t_affinity, t_nodeselector,
                                t_resources, t_topology, t_priority, t_runtime}
    THEN OsArg(osArgs, 2) ELSE <<>>

\* the 0-based place of the resource type in os.Args
ResourceTypeAt == IF TypedSubCommand = <<>> THEN 2 ELSE 3

HelpWords == {<<"-","h">>, <<"-","-","h","e","l","p">>, <<"-","h","e","l","p">>}

HelpAsked == \E k \in 3..Len(osArgs) : osArgs[k] \in HelpWords

ResourceTypeMissing == Len(osArgs) <= ResourceTypeAt

\* the usage that belongs to what was typed
ContextUsage ==
    IF OsArg(osArgs, 1) = t_scheduling
    THEN Usage("printSchedulingUsage", TypedSubCommand)
    ELSE Usage("printCommandUsage", OsArg(osArgs, 1))

\* C24: for labels, annotations, owner and scheduling (with or without a
\* subcommand), when an argument after the command is -h, --help or -help,
\* or the resource type is missing, main prints the usage of that command
\* (of that subcommand) and exits with status 0, and getKubeconfig was not
\* called.
C24_HelpBeforeKubeconfig ==
    (calls = "main" /\ TypedCommand /\ (HelpAsked \/ ResourceTypeMissing)) =>
        /\ stdout = <<ContextUsage>>
        /\ exitCode = 0
        /\ mainCalls = <<>>
        /\ stderr = <<>>

\* C24 witness: "scheduling tolerations pods web -help": the help flag comes
\* last, after a resource name, and the usage of the subcommand was printed.
C24_Witness ==
    /\ calls = "main"
    /\ osArgs = <<t_prog, t_scheduling, t_tolerations, s_pods, t_web,
                  <<"-","h","e","l","p">>>>
    /\ stdout = <<Usage("printSchedulingUsage", t_tolerations)>>
    /\ exitCode = 0
    /\ mainCalls = <<>>

-----------------------------------------------------------------------------
\* an argument that starts with "-"
LooksLikeFlag(arg) == Len(arg) > 0 /\ arg[1] = "-"

\* the arguments typed after the resource type
Typed == SliceFrom(osArgs, command.argsOffset)

\* the number of arguments before the first flag
NamesTyped ==
    IF \E k \in 1..Len(Typed) : LooksLikeFlag(Typed[k])
    THEN (CHOOSE k \in 1..Len(Typed) :
             LooksLikeFlag(Typed[k]) /\ \A j \in 1..(k - 1) : ~LooksLikeFlag(Typed[j])) - 1
    ELSE Len(Typed)

\* the flags typed after the names, as the flag set reads them on their own
FlagsTyped == Parse(DefaultFlags, preprocessArgs(SliceFrom(Typed, NamesTyped)))

\* the command line has the documented form: names, then flags that the
\* flag set accepts and that leave no argument over
DocumentedForm ==
    /\ command # NoCommand
    /\ ~LooksLikeFlag(command.resourceType)
    /\ "getKubeconfig" \in {mainCalls[k] : k \in 1..Len(mainCalls)}
    /\ <<"-","-">> \notin {Typed[k] : k \in 1..Len(Typed)}
    /\ FlagsTyped.status = "done"
    /\ FlagsTyped.fs.Args = <<>>

\* C23: on a command line of the documented form, with the flags after the
\* resource names, the flags are applied, the resource names are exactly the
\* arguments before the first flag, and no flag or flag value is among them.
C23_FlagsAfterNames ==
    (calls = "main" /\ DocumentedForm) =>
        /\ flagSet.Args = SubSeq(Typed, 1, NamesTyped)
        /\ \A k \in 1..Len(flagSet.Args) : ~LooksLikeFlag(flagSet.Args[k])
        /\ flagSet.namespace = FlagsTyped.fs.namespace
        /\ flagSet.allNamespaces = FlagsTyped.fs.allNamespaces
        /\ flagSet.selector = FlagsTyped.fs.selector
        /\ flagSet.outputFormat = FlagsTyped.fs.outputFormat
        /\ flagSet.colorOutput = FlagsTyped.fs.colorOutput

\* with no name typed the flags are applied and no resource name is handed on
FlagsAloneAreApplied ==
    (calls = "main" /\ DocumentedForm /\ NamesTyped = 0) =>
        /\ flagSet.Args = <<>>
        /\ flagSet = FlagsTyped.fs

-----------------------------------------------------------------------------
(* main, from the retrieved items to the output (main.go, lines 269-333),   *)
(* with printTable and the field tags of types.go                           *)

\* item.GetName() and item.GetNamespace()
GetName(obj)      == NestedString(obj, <<"metadata", "name">>).val
GetNamespace(obj) == NestedString(obj, <<"metadata", "namespace">>).val

\* item.GetLabels() and item.GetAnnotations(): a map[string]string, nil when
\* the field is missing or is not a map of strings
StringMapOrNil(obj, field) ==
    LET m == NestedStringMap(obj, <<"metadata", field>>)
    IN IF m.found THEN [stringmap |-> m.val] ELSE VNil

GetLabels(obj)      == StringMapOrNil(obj, "labels")
GetAnnotations(obj) == StringMapOrNil(obj, "annotations")

\* &labels: a pointer that is never nil
PointerTo(val) == [ptr |-> val]
IsPointer(val) == "ptr" \in DOMAIN val

\* extractors.go, lines 49-70: one owner reference
OwnerReference(ref, obj) ==
    [Namespace |->
        IF /\ "namespace" \in DOMAIN ref /\ IsString(ref["namespace"])
           /\ ref["namespace"].string # ""
        THEN ref["namespace"].string ELSE GetNamespace(obj),
     Kind |-> IF "kind" \in DOMAIN ref /\ IsString(ref["kind"])
              THEN ref["kind"].string ELSE "",
     Name |-> IF "name" \in DOMAIN ref /\ IsString(ref["name"])
              THEN ref["name"].string ELSE ""]

\* extractors.go, lines 34-74: the slice is never nil; an entry that is not
\* a map is passed over
extractOwnerReferences(obj) ==
    LET metadata == NestedSlice(obj, <<"metadata", "ownerReferences">>)
        maps     == SelectSeq(metadata.val, IsMap)
    IN IF ~metadata.found THEN VSlice(<<>>)
       ELSE VSlice([k \in 1..Len(maps) |-> OwnerReference(maps[k].map, obj)])

\* OutputItem{Name: item.GetName()}: every other field has its zero value
NewOutputItem(name) ==
    [Name |-> name, Namespace |-> "", Labels |-> VNil, Annotations |-> VNil,
     OwnerReferences |-> VNil, Scheduling |-> NilSchedulingInfo,
     Tolerations |-> VNil, Affinity |-> VNil, NodeSelector |-> VNil,
     Resources |-> VNil, TopologySpreadConstraints |-> VNil,
     Priority |-> VNil, Runtime |-> VNil]

\* lines 277-300: the switch on cmdType
FillFor(out, obj, cmd, subCmd) ==
    CASE cmd = "labels" -> [out EXCEPT !.Labels = PointerTo(GetLabels(obj))]
      [] cmd = "annotations" ->
            [out EXCEPT !.Annotations = PointerTo(GetAnnotations(obj))]
      [] cmd = "owner" ->
            [out EXCEPT !.OwnerReferences = extractOwnerReferences(obj)]
      [] cmd = "scheduling" ->
            IF subCmd = ""
            THEN [out EXCEPT !.Scheduling = extractSchedulingInfo(obj)]
            ELSE extractSchedulingSubcommand(obj, out, subCmd)
      [] OTHER -> out

\* lines 271-302: the OutputItem of one item
BuildOutputItem(obj, cmd, subCmd, isNamespaced) ==
    LET named == NewOutputItem(GetName(obj))
        placed == IF isNamespaced
                  THEN [named EXCEPT !.Namespace = GetNamespace(obj)]
                  ELSE named
    IN FillFor(placed, obj, cmd, subCmd)

\* lines 269-303
BuildOutput(objs, cmd, subCmd, isNamespaced) ==
    [Items |-> [k \in 1..Len(objs) |->
                   BuildOutputItem(objs[k], cmd, subCmd, isNamespaced)]]

\* len() of a slice or map value, 0 for nil
LenOf(val) ==
    IF IsNil(val) THEN 0
    ELSE IF IsSlice(val) THEN Len(val.slice)
    ELSE IF IsMap(val) THEN MapLen(val.map)
    ELSE IF "stringmap" \in DOMAIN val THEN MapLen(val.stringmap)
    ELSE 1

\* the Go fields that hold a bool, and those that hold a string
BoolFields   == {"HostNetwork", "HostPID", "HostIPC"}
StringFields == {"Name", "Namespace", "Kind", "NodeName", "SchedulerName",
                 "PriorityClassName", "PreemptionPolicy", "RuntimeClassName"}

\* the "omitempty" rule of encoding/json and of yaml.v3, on the values the
\* structs hold: false, "", a nil pointer, and a nil or empty slice or map
\* are left out; a pointer that is not nil is written whatever it points to
IsEmptyValue(field, val) ==
    IF field \in BoolFields THEN val = FALSE
    ELSE IF field \in StringFields THEN val = ""
    ELSE IF IsPointer(val) \/ "int32" \in DOMAIN val THEN FALSE
    ELSE IF "IsNil" \in DOMAIN val THEN val.IsNil
    ELSE LenOf(val) = 0

\* the tags of types.go: Go field, key in the output, and whether the field
\* is omitted when empty; OutputItem.Name and Namespace and the fields of
\* OwnerReference have no yaml tag, so yaml.v3 writes them under the
\* lower-cased field name whatever their value
Lowered(field) ==
    CASE field = "Name" -> "name" [] field = "Namespace" -> "namespace"
      [] field = "Labels" -> "labels" [] field = "Annotations" -> "annotations"
      [] field = "OwnerReferences" -> "ownerReferences"
      [] field = "Scheduling" -> "scheduling"
      [] field = "Tolerations" -> "tolerations"
      [] field = "Affinity" -> "affinity"
      [] field = "NodeSelector" -> "nodeSelector"
      [] field = "Resources" -> "resources"
      [] field = "TopologySpreadConstraints" -> "topologySpreadConstraints"
      [] field = "Priority" -> "priority"
      [] field = "Runtime" -> "runtime"
      [] field = "Kind" -> "kind"
      [] field = "NodeName" -> "nodeName"
      [] field = "ResourceRequests" -> "resourceRequests"
      [] field = "ResourceLimits" -> "resourceLimits"
      [] field = "SchedulerName" -> "schedulerName"
      [] field = "PriorityClassName" -> "priorityClassName"
      [] field = "PreemptionPolicy" -> "preemptionPolicy"
      [] field = "RuntimeClassName" -> "runtimeClassName"
      [] field = "HostNetwork" -> "hostNetwork"
      [] field = "HostPID" -> "hostPID"
      [] field = "HostIPC" -> "hostIPC"

\* types.go: the field carries omitempty in the given format
OmitEmpty(struct, field, format) ==
    CASE struct = "OutputItem" ->
            IF field = "Name" THEN FALSE
            ELSE IF field = "Namespace" THEN format = "json"
            ELSE TRUE
      [] struct = "OwnerReference" -> field = "Namespace" /\ format = "json"
      [] struct = "SchedulingInfo" -> TRUE

\* the fields of a struct value that are written
Written(struct, val, format) ==
    {field \in DOMAIN val \ {"IsNil"} :
        ~(OmitEmpty(struct, field, format) /\ IsEmptyValue(field, val[field]))}

\* a struct as the encoder writes it: the value of each written field under
\* its key; the values below the struct's own fields are written as they are
RECURSIVE Encode(_, _, _)
Encode(struct, val, format) ==
    LET fields == Written(struct, val, format)
        keyOf  == [field \in fields |-> Lowered(field)]
        inner(field) ==
            IF struct = "OutputItem" /\ field = "Scheduling"
            THEN Encode("SchedulingInfo", val[field], format)
            ELSE IF struct = "OutputItem" /\ field = "OwnerReferences"
            THEN IF IsNil(val[field]) THEN VNil
                 ELSE [k \in 1..LenOf(val[field]) |->
                          Encode("OwnerReference", val[field].slice[k], format)]
            ELSE IF field \in StringFields THEN VString(val[field])
            ELSE IF field \in BoolFields THEN VBool(val[field])
            ELSE IF IsPointer(val[field]) THEN val[field].ptr
            ELSE val[field]
    IN [key \in {keyOf[field] : field \in fields} |->
           inner(CHOOSE field \in fields : keyOf[field] = key)]

\* json.MarshalIndent(output) and yaml.Marshal(output): Items is tagged
\* "items" and is always written
Marshal(out, format) ==
    [items |-> [k \in 1..Len(out.Items) |->
                   Encode("OutputItem", out.Items[k], format)]]

\* sort.Strings on the keys that the documents below use
SortOrder == <<"app", "disk", "note", "tier", "zone">>

SortedKeys(m) == SelectSeq(SortOrder, LAMBDA k : k \in DOMAIN m)

\* strings.Join(pairs, ",")
RECURSIVE Join(_)
Join(strs) ==
    IF strs = <<>> THEN ""
    ELSE IF Len(strs) = 1 THEN strs[1]
    ELSE strs[1] \o "," \o Join(Tail(strs))

\* "k=v" for every entry of a map[string]string, sorted and joined
Pairs(m) ==
    LET keys == SortedKeys(m)
    IN Join([k \in 1..Len(keys) |-> keys[k] \o "=" \o m[keys[k]]])

None == "<none>"

\* part_000, lines 94-134: the header row; a row is the sequence of its
\* tab-separated cells
Header(cmd, subCmd, isNamespaced) ==
    (IF isNamespaced THEN <<"NAME", "NAMESPACE">> ELSE <<"NAME">>) \o
    (CASE cmd = "labels" -> <<"LABELS">>
       [] cmd = "annotations" -> <<"ANNOTATIONS">>
       [] cmd = "owner" ->
             IF isNamespaced THEN <<"OWNER NAMESPACE", "OWNER KIND", "OWNER NAME">>
             ELSE <<"OWNER KIND", "OWNER NAME">>
       [] cmd = "scheduling" ->
             CASE subCmd = "" -> <<"NODESELECTOR", "AFFINITY", "TOLERATIONS", "RESOURCES">>
               [] subCmd = "tolerations" -> <<"TOLERATIONS">>
               [] subCmd = "affinity" -> <<"AFFINITY">>
               [] subCmd = "nodeselector" -> <<"NODESELECTOR">>
               [] subCmd = "resources" -> <<"RESOURCES">>
               [] subCmd = "topology" -> <<"TOPOLOGY SPREAD CONSTRAINTS">>
               [] subCmd = "priority" -> <<"PRIORITY">>
               [] subCmd = "runtime" -> <<"RUNTIME">>)

\* lines 136-157: the separator row
Separator(cmd, subCmd, isNamespaced) ==
    (IF isNamespaced THEN <<"----", "---------">> ELSE <<"----">>) \o
    (IF cmd = "owner"
     THEN IF isNamespaced THEN <<"---------------", "----------", "----------">>
          ELSE <<"----------", "----------">>
     ELSE IF cmd = "scheduling" /\ subCmd = ""
     THEN <<"-----------", "--------", "-----------", "---------">>
     ELSE <<"--------">>)

\* the cells "name" and "namespace" that open a row
Lead(out, isNamespaced) ==
    IF isNamespaced THEN <<out.Name, out.Namespace>> ELSE <<out.Name>>

\* lines 161-196: the rows of one item of the owner command
OwnerRows(out, isNamespaced) ==
    IF LenOf(out.OwnerReferences) = 0
    THEN << Lead(out, isNamespaced) \o
            (IF isNamespaced THEN <<None, None, None>> ELSE <<None, None>>) >>
    ELSE [i \in 1..LenOf(out.OwnerReferences) |->
            LET ownerRef == out.OwnerReferences.slice[i] IN
            (IF i = 1 THEN Lead(out, isNamespaced)
             ELSE IF isNamespaced THEN <<"", "">> ELSE <<"">>) \o
            (IF isNamespaced
             THEN <<IF ownerRef.Namespace = "" THEN None ELSE ownerRef.Namespace,
                    ownerRef.Kind, ownerRef.Name>>
             ELSE <<ownerRef.Kind, ownerRef.Name>>)]

\* lines 205-227: the pairs of the labels or annotations of an item; the
\* slice stays empty under every other command
LabelPairs(out, cmd) ==
    IF cmd = "labels" /\ IsPointer(out.Labels) /\ ~IsNil(out.Labels.ptr)
    THEN Pairs(out.Labels.ptr.stringmap)
    ELSE IF cmd = "annotations" /\ IsPointer(out.Annotations)
            /\ ~IsNil(out.Annotations.ptr)
    THEN Pairs(out.Annotations.ptr.stringmap)
    ELSE ""

\* lines 197-234: the else branch of "if cmdType == owner"
PairsRow(out, cmd, isNamespaced) ==
    Lead(out, isNamespaced) \o
    <<IF LabelPairs(out, cmd) # "" THEN LabelPairs(out, cmd) ELSE None>>

\* lines 244-282: the four cells of the summary
SummaryCells(scheduling) ==
    IF scheduling.IsNil THEN <<None, None, None, None>>
    ELSE << IF LenOf(scheduling.NodeSelector) > 0
            THEN Pairs(scheduling.NodeSelector.stringmap) ELSE None,
            IF LenOf(scheduling.Affinity) > 0 THEN "present" ELSE None,
            IF LenOf(scheduling.Tolerations) > 0
            THEN ToString(LenOf(scheduling.Tolerations)) \o " item(s)" ELSE None,
            IF ~IsNil(scheduling.ResourceRequests) \/ ~IsNil(scheduling.ResourceLimits)
            THEN "present" ELSE None >>

\* lines 284-331: the cell of a subcommand
ValueCell(out, subCmd) ==
    CASE subCmd = "tolerations" ->
            IF LenOf(out.Tolerations) > 0
            THEN ToString(LenOf(out.Tolerations)) \o " toleration(s)" ELSE None
      [] subCmd = "affinity" -> IF LenOf(out.Affinity) > 0 THEN "present" ELSE None
      [] subCmd = "nodeselector" ->
            IF LenOf(out.NodeSelector) > 0
            THEN Pairs(out.NodeSelector.stringmap) ELSE None
      [] subCmd = "resources" ->
            IF LenOf(out.Resources) > 0
            THEN ToString(LenOf(out.Resources)) \o " container(s)" ELSE None
      [] subCmd = "topology" ->
            IF LenOf(out.TopologySpreadConstraints) > 0
            THEN ToString(LenOf(out.TopologySpreadConstraints)) \o " constraint(s)"
            ELSE None
      [] subCmd = "priority" -> IF LenOf(out.Priority) > 0 THEN "present" ELSE None
      [] subCmd = "runtime" -> IF LenOf(out.Runtime) > 0 THEN "present" ELSE None
      [] OTHER -> ""

\* lines 236-335: the "if cmdType == scheduling" block
SchedulingRow(out, subCmd, isNamespaced) ==
    Lead(out, isNamespaced) \o
    (IF subCmd = "" THEN SummaryCells(out.Scheduling)
     ELSE <<ValueCell(out, subCmd)>>)

\* lines 160-336: the rows one item adds
ItemRows(out, cmd, subCmd, isNamespaced) ==
    (IF cmd = "owner" THEN OwnerRows(out, isNamespaced)
     ELSE <<PairsRow(out, cmd, isNamespaced)>>) \o
    (IF cmd = "scheduling" THEN <<SchedulingRow(out, subCmd, isNamespaced)>>
     ELSE <<>>)

RECURSIVE AllItemRows(_, _, _, _)
AllItemRows(outs, cmd, subCmd, isNamespaced) ==
    IF outs = <<>> THEN <<>>
    ELSE ItemRows(Head(outs), cmd, subCmd, isNamespaced) \o
         AllItemRows(Tail(outs), cmd, subCmd, isNamespaced)

\* altered: a table is printed for the owner command only
printTable_OwnerOnly(out, cmd, subCmd, isNamespaced) ==
    IF Len(out.Items) = 0 \/ cmd # "owner" THEN <<>>
    ELSE <<Header(cmd, subCmd, isNamespaced), Separator(cmd, subCmd, isNamespaced)>>
         \o AllItemRows(out.Items, cmd, subCmd, isNamespaced)

\* part_000, lines 85-341: the rows written, none when there is no item
printTable(out, cmd, subCmd, isNamespaced) ==
    IF Len(out.Items) = 0 THEN <<>>
    ELSE <<Header(cmd, subCmd, isNamespaced), Separator(cmd, subCmd, isNamespaced)>>
         \o AllItemRows(out.Items, cmd, subCmd, isNamespaced)

\* one write to os.Stdout
Printed(format, colored, body) ==
    [format |-> format, colored |-> colored, body |-> body]

\* part_002, lines 305-332: the output in the requested format, and the
\* status main ends with
PrintIn(out, cmd, subCmd, isNamespaced, format, color) ==
    LET lowered == ToLower(format) IN
    CASE lowered = t_json ->
            [stdout |-> <<Printed("json", color, Marshal(out, "json"))>>,
             stderr |-> <<>>, exitCode |-> 0]
      [] lowered = t_yaml ->
            [stdout |-> <<Printed("yaml", FALSE, Marshal(out, "yaml"))>>,
             stderr |-> <<>>, exitCode |-> 0]
      [] lowered = t_table ->
            LET rows == printTable(out, cmd, subCmd, isNamespaced)
            IN [stdout |-> IF rows = <<>> THEN <<>>
                           ELSE <<Printed("table", FALSE, rows)>>,
                stderr |-> <<>>, exitCode |-> 0]
      [] OTHER ->
            [stdout |-> <<>>, stderr |-> <<"Error: unsupported output format">>,
             exitCode |-> 1]

-----------------------------------------------------------------------------
(* Specification of the output: Init draws the command, the flags that     *)
(* bear on the output and the items retrieved, PrintOutput is main from    *)
(* line 269 to its end.                                                     *)

Metadata(name, ns, more) ==
    VMap([k \in {"name", "namespace"} \cup DOMAIN more |->
            IF k = "name" THEN VString(name)
            ELSE IF k = "namespace" THEN VString(ns)
            ELSE more[k]])

ReplicaSetRef == VMap([kind |-> VString("ReplicaSet"), name |-> VString("web-rs")])
JobRef ==
    VMap([kind |-> VString("Job"), name |-> VString("nightly"),
          namespace |-> VString("batch")])

\* a pod with one owner, labels, an annotation and every scheduling key
PodWeb ==
    VMap([kind |-> VString("Pod"),
          metadata |-> Metadata("web", "prod",
              [labels |-> VMap([tier |-> VString("front"), app |-> VString("web")]),
               annotations |-> VMap([note |-> VString("x")]),
               ownerReferences |-> VSlice(<<ReplicaSetRef>>)]),
          spec |-> VMap(FullSpec)])

\* a pod with nothing but its name and namespace
PodBare ==
    VMap([kind |-> VString("Pod"), metadata |-> Metadata("bare", "prod", <<>>)])

\* a pod with two owners and an entry that is not a mapping
PodTwoOwners ==
    VMap([kind |-> VString("Pod"),
          metadata |-> Metadata("two", "prod",
              [labels |-> VMap(EmptyMap),
               ownerReferences |-> VSlice(<<JobRef, VString("junk"), ReplicaSetRef>>)]),
          spec |-> VMap([tolerations |-> VSlice(<<TolerationX, TolerationY>>)])])

\* an object with an empty list of owners
DeploymentOrphan ==
    VMap([kind |-> VString("Deployment"),
          metadata |-> Metadata("api", "prod",
              [labels |-> VMap([app |-> VString("api")]),
               ownerReferences |-> VSlice(<<>>)]),
          spec |-> VMap([template |-> VMap([spec |->
                      VMap([nodeSelector |-> VMap([disk |-> VString("ssd"),
                                                   zone |-> VString("a")])])])])])

OutputDocuments == {PodWeb, PodBare, PodTwoOwners, DeploymentOrphan}

CommandTypes == {"labels", "annotations", "owner", "scheduling"}

TableSubCommands ==
    {"", "tolerations", "affinity", "nodeselector", "resources", "topology",
     "priority", "runtime"}

\* the values of -o
Formats == {t_json, t_yaml, t_table, <<"T","a","b","l","e">>, <<"w","i","d","e">>}

InitOutput ==
    /\ calls = "none"
    /\ clientErr = FALSE /\ discErr = FALSE /\ listsNil = TRUE
    /\ apiResourceLists = <<>> /\ resourceType = s_empty /\ resolved = NoResult
    /\ item = VMap(EmptyMap) /\ podSpecPath = <<>>
    /\ outputItem = FreshOutputItem
    /\ namespace = "" /\ resourceNames = <<>>
    /\ labelSelector = NilSelector
    /\ objects = [n \in {} |-> "error"] /\ listErr = FALSE
    /\ apiCalls = <<>> /\ retrieved = NoRetrieved
    /\ osArgs = <<>> /\ kubeconfigErr = FALSE
    /\ command = NoCommand /\ flagSet = DefaultFlags /\ mainCalls = <<>>
    /\ cmdType \in CommandTypes
    /\ subCommand \in (IF cmdType = "scheduling" THEN TableSubCommands ELSE {""})
    /\ namespaced \in BOOLEAN
    /\ outputFormat \in Formats
    /\ colorOutput \in BOOLEAN
    /\ items \in SeqsUpTo(OutputDocuments, MaxItems)
    /\ output = NoOutput
    /\ stdout = <<>> /\ stderr = <<>> /\ exitCode = Running

PrintOutput ==
    /\ calls' = "output"
    /\ LET out == BuildOutput(items, cmdType, subCommand, namespaced)
           p   == PrintIn(out, cmdType, subCommand, namespaced, outputFormat,
                          colorOutput)
       IN /\ output' = out
          /\ stdout' = p.stdout
          /\ stderr' = p.stderr
          /\ exitCode' = p.exitCode
    /\ UNCHANGED <<osArgs, kubeconfigErr, command, flagSet, mainCalls, cmdType,
                   outputFormat, colorOutput, items>>
    /\ UNCHANGED resolveVars
    /\ UNCHANGED extractVars
    /\ UNCHANGED retrieveVars

NextOutput == PrintOutput

SpecOutput == InitOutput /\ [][NextOutput]_vars

-----------------------------------------------------------------------------
\* the document declares no owner: the field is missing or is an empty list
HasNoOwnerReferences(obj) ==
    LET declared == NestedSlice(obj, <<"metadata", "ownerReferences">>)
    IN ~declared.found \/ declared.val = <<>>

\* the output was written as JSON or as YAML
Marshalled ==
    /\ calls = "output"
    /\ Len(stdout) = 1
    /\ stdout[1].format \in {"json", "yaml"}

\* C21: under the owner command, an object with no ownerReferences is
\* written with the key ownerReferences present and holding an empty array,
\* neither left out nor null.
C21_EmptyOwnerArray ==
    (Marshalled /\ cmdType = "owner") =>
        \A k \in 1..Len(items) :
            HasNoOwnerReferences(items[k]) =>
                /\ "ownerReferences" \in DOMAIN stdout[1].body.items[k]
                /\ ~IsNil(stdout[1].body.items[k]["ownerReferences"])
                /\ Len(stdout[1].body.items[k]["ownerReferences"]) = 0

\* the slice that main stores for such an object is empty and not nil, and
\* the key is missing from what is written
OwnerFieldLeftOut ==
    (Marshalled /\ cmdType = "owner") =>
        \A k \in 1..Len(items) :
            HasNoOwnerReferences(items[k]) =>
                /\ output.Items[k].OwnerReferences = VSlice(<<>>)
                /\ "ownerReferences" \notin DOMAIN stdout[1].body.items[k]

-----------------------------------------------------------------------------
\* the value of -o as main compares it
RequestedFormat == ToLower(outputFormat)

TablePrinted ==
    /\ Len(stdout) = 1
    /\ stdout[1].format = "table"

-----------------------------------------------------------------------------
\* the rows below the header and the separator
DataRows == SubSeq(stdout[1].body, 3, Len(stdout[1].body))

\* the number of rows an item is to add
RowsDue(out) ==
    IF cmdType = "owner" /\ LenOf(out.OwnerReferences) > 1
    THEN LenOf(out.OwnerReferences) ELSE 1

RECURSIVE TotalRowsDue(_)
TotalRowsDue(outs) ==
    IF outs = <<>> THEN 0 ELSE RowsDue(Head(outs)) + TotalRowsDue(Tail(outs))

\* C30: in a table every item adds one data row under labels, annotations
\* and scheduling, and as many rows as it has owner references (one when it
\* has none) under owner; every data row has as many cells as the header.
C30_OneRowPerItem ==
    (calls = "output" /\ TablePrinted) =>
        /\ Len(DataRows) = TotalRowsDue(output.Items)
        /\ \A r \in 1..Len(DataRows) : Len(DataRows[r]) = Len(stdout[1].body[1])

\* the same holds when the command is not scheduling
RowsMatchOutsideScheduling ==
    (calls = "output" /\ TablePrinted /\ cmdType # "scheduling") =>
        /\ Len(DataRows) = TotalRowsDue(output.Items)
        /\ \A r \in 1..Len(DataRows) : Len(DataRows[r]) = Len(stdout[1].body[1])

\* under scheduling every item adds two rows, the first of which holds the
\* name, the namespace when there is one, and "<none>"
TwoRowsUnderScheduling ==
    (calls = "output" /\ TablePrinted /\ cmdType = "scheduling") =>
        /\ Len(DataRows) = 2 * Len(items)
        /\ \A k \in 1..Len(items) :
              /\ DataRows[2 * k - 1] = Lead(output.Items[k], namespaced) \o <<None>>
              /\ Len(DataRows[2 * k]) = Len(stdout[1].body[1])

====
